---- MODULE Spec2Model ----
(***************************************************************************)
(* A model of the deterministic assessment engine of openvelo-insight      *)
(* (src/app/assessment_engine.py, src/app/domain.py).                      *)
(*                                                                         *)
(* Representation.                                                         *)
(*  - An optional value (Python's None or a value) is a sequence of length *)
(*    at most one: None is <<>> and a present value v is <<v>>.            *)
(*  - Readings, thresholds and distances are integers (degrees F, mph, AQI *)
(*    points, percent); the code's floats hold these values exactly.       *)
(*  - Scores are fixed point, in thousandths: the code's 10.0 is 10000.    *)
(*    The temperature penalty, the only irrational quantity, is rounded    *)
(*    down to a thousandth.                                                *)
(*  - A window_score is the exact fraction [num, den]: the sum of the      *)
(*    hour scores over the divisor the code divides by.                    *)
(*  - Timestamps are integer seconds.                                      *)
(*  - The text of a reason is its message without the formatted numbers.   *)
(***************************************************************************)
EXTENDS Integers, Sequences, FiniteSets, TLC

VARIABLES
    preferences,          \* RiderPreferences passed to assess_hour / assess_timeline
    hour_snapshot,        \* the snapshot passed to assess_hour
    assessment,           \* Optional: the HourAssessment assess_hour returned
    conditions,           \* BikeConditions passed to assess_timeline
    policies,             \* Optional: the policies argument of assess_timeline
    current_assessment,   \* Optional: first component of assess_timeline's result
    hourly_assessments,   \* second component of assess_timeline's result
    hourly,               \* the hour list passed to the window and summary functions
    durations_minutes,    \* the candidate durations of compute_window_recommendations
    recs,                 \* the list compute_window_recommendations returned
    window_decision,      \* Optional: the Decision _aggregate_decision returned
    summary,              \* Optional: the AssessmentSummary build_summary returned
    flags,                \* the flag list passed to _dedupe_limit_flags
    limiters,             \* the list _dedupe_limit_flags returned
    error,                \* the exception the last call raised, or "none"
    pc,                   \* the last call that completed ("input" before the first)
    clock,                \* the time in seconds (time.monotonic, time.time)
    store,                \* the session store: its kind, ttl, max_age and sessions
    generated,            \* the number of session ids _generate_id has handed out
    returned,             \* Optional: the last call on the store and what it returned
    history,              \* per session the time of its creation, the time of its
                          \* creation or last successful access, and the sessions a
                          \* call found expired
    updaters,             \* the update_session calls in progress, by caller
    request               \* Optional: the last API request and its response

engine_vars == <<preferences, hour_snapshot, assessment, conditions, policies,
                 current_assessment, hourly_assessments, hourly, durations_minutes,
                 recs, window_decision, summary, flags, limiters, error, pc>>

store_vars == <<clock, store, generated, returned, history, updaters, request>>

vars == <<preferences, hour_snapshot, assessment, conditions, policies,
          current_assessment, hourly_assessments, hourly, durations_minutes,
          recs, window_decision, summary, flags, limiters, error, pc,
          clock, store, generated, returned, history, updaters, request>>

----------------------------------------------------------------------------
(* Optional values *)

None == <<>>

Some(x) == <<x>>

IsNone(o) == o = <<>>

Val(o) == o[1]

----------------------------------------------------------------------------
(* Vocabulary of src/app/domain.py *)

Statuses == {"ideal", "acceptable", "caution", "avoid", "unknown"}

Decisions == {"go", "go_with_caution", "avoid", "unknown"}

Trends == {"improving", "stable", "worsening", "unknown"}

Severities == {"minor", "moderate", "major", "critical"}

\* The judgment keys, in the order assess_hour inserts them.
JudgmentKeys ==
    <<"temperature_f", "wind_speed_mph", "wind_gusts_mph", "us_aqi",
      "precipitation_prob_percent", "daylight">>

\* MeasureJudgment(status=..., distance_from_preference=..., severity=..., reasons=...)
\* with the trend fields at their default None.
MeasureJudgment(status, distance, severity, reasons) ==
    [status |-> status,
     distance_from_preference |-> distance,
     severity |-> severity,
     reasons |-> reasons,
     trend |-> None,
     trend_delta |-> None,
     trend_confidence |-> None]

RiskFlag(code, severity, evidence) ==
    [code |-> code, severity |-> severity, evidence |-> evidence]

----------------------------------------------------------------------------
(* The six judges.  Each returns the judgment (j) and the risk flags it    *)
(* appended to the hour's risk list (r).                                   *)

\* A branch that calls _add_risk and returns a judgment carrying the severity.
Risky(status, distance, severity, code, reason) ==
    [j |-> MeasureJudgment(status, distance, Some(severity), <<reason>>),
     r |-> <<RiskFlag(code, severity, <<reason>>)>>]

\* A branch that returns a judgment without a risk.
Plain(status, distance, reasons) ==
    [j |-> MeasureJudgment(status, distance, None, reasons), r |-> <<>>]

\* _judge_temperature with the cold caution tests written distance >= 10.
JudgeTemperatureCautionAtTen(temp_f, prefs) ==
    LET range_pref == prefs.preferred_temp_range_f IN
    IF IsNone(temp_f) \/ IsNone(range_pref)
    THEN Plain("unknown", None, <<>>)
    ELSE
      LET t == Val(temp_f)
          lower == Val(range_pref)[1]
          upper == Val(range_pref)[2]
      IN
      IF t < lower THEN
        LET distance == lower - t IN
        IF t < 32 THEN
          Risky("avoid", Some(distance),
                IF t <= 25 THEN "major" ELSE "moderate",
                "extreme_cold", "Very cold")
        ELSE IF distance >= 10 THEN
          Risky("caution", Some(distance), "moderate", "extreme_cold", "Cold")
        ELSE IF distance > 5 THEN
          Plain("acceptable", Some(distance), <<"Slightly cool">>)
        ELSE
          Plain("acceptable", Some(distance), <<"Slightly cool: just below">>)
      ELSE IF t > upper THEN
        LET distance == t - upper IN
        IF distance > 15 THEN
          Risky("avoid", Some(distance), "major", "extreme_heat", "Very hot")
        ELSE IF distance > 5 THEN
          Risky("caution", Some(distance), "moderate", "extreme_heat", "Hot")
        ELSE
          Plain("acceptable", Some(distance), <<"Slightly warm">>)
      ELSE
        Plain("ideal", Some(0), <<"Comfortable">>)

_judge_temperature(temp_f, prefs) ==
    LET range_pref == prefs.preferred_temp_range_f IN
    IF IsNone(temp_f) \/ IsNone(range_pref)
    THEN Plain("unknown", None, <<>>)
    ELSE
      LET t == Val(temp_f)
          lower == Val(range_pref)[1]
          upper == Val(range_pref)[2]
      IN
      IF t < lower THEN
        LET distance == lower - t IN
        IF t < 32 THEN
          Risky("avoid", Some(distance),
                IF t <= 25 THEN "major" ELSE "moderate",
                "extreme_cold", "Very cold")
        ELSE IF distance > 20 THEN
          Risky("caution", Some(distance), "moderate", "extreme_cold", "Cold")
        ELSE IF distance > 10 THEN
          Risky("caution", Some(distance), "moderate", "extreme_cold", "Cold")
        ELSE IF distance > 5 THEN
          Plain("acceptable", Some(distance), <<"Slightly cool">>)
        ELSE
          Plain("acceptable", Some(distance), <<"Slightly cool: just below">>)
      ELSE IF t > upper THEN
        LET distance == t - upper IN
        IF distance > 15 THEN
          Risky("avoid", Some(distance), "major", "extreme_heat", "Very hot")
        ELSE IF distance > 5 THEN
          Risky("caution", Some(distance), "moderate", "extreme_heat", "Hot")
        ELSE
          Plain("acceptable", Some(distance), <<"Slightly warm">>)
      ELSE
        Plain("ideal", Some(0), <<"Comfortable">>)

\* prefs.max_wind_mph or 25.0
MaxWind(prefs) ==
    IF IsNone(prefs.max_wind_mph) \/ prefs.max_wind_mph = Some(0)
    THEN 25 ELSE Val(prefs.max_wind_mph)

\* _judge_wind with max_wind - wind_mph as the distance of every branch.
JudgeWindSignedDistance(wind_mph, prefs) ==
    LET max_wind == MaxWind(prefs) IN
    IF IsNone(wind_mph) THEN Plain("unknown", None, <<>>)
    ELSE
      LET w == Val(wind_mph) IN
      IF w > max_wind + 5 THEN
        Risky("avoid", Some(max_wind - w), "major", "high_wind", "Wind above limit")
      ELSE IF w > max_wind THEN
        Risky("caution", Some(max_wind - w), "moderate", "high_wind",
              "Wind exceeds preferred")
      ELSE IF 10 * w > 8 * max_wind THEN
        Plain("acceptable", Some(max_wind - w), <<"Wind near limit">>)
      ELSE
        Plain("ideal", Some(max_wind - w), <<"Wind within preference">>)

_judge_wind(wind_mph, prefs) ==
    LET max_wind == MaxWind(prefs) IN
    IF IsNone(wind_mph) THEN Plain("unknown", None, <<>>)
    ELSE
      LET w == Val(wind_mph) IN
      IF w > max_wind + 5 THEN
        Risky("avoid", Some(w - max_wind), "major", "high_wind", "Wind above limit")
      ELSE IF w > max_wind THEN
        Risky("caution", Some(w - max_wind), "moderate", "high_wind",
              "Wind exceeds preferred")
      ELSE IF 10 * w > 8 * max_wind THEN    \* wind_mph > max_wind * 0.8
        Plain("acceptable", Some(max_wind - w), <<"Wind near limit">>)
      ELSE
        Plain("ideal", Some(max_wind - w), <<"Wind within preference">>)

_judge_gusts(gust_mph, prefs) ==
    LET max_wind == MaxWind(prefs) IN
    IF IsNone(gust_mph) THEN Plain("unknown", None, <<>>)
    ELSE
      LET g == Val(gust_mph) IN
      IF g > max_wind + 15 THEN
        Risky("avoid", Some(g - max_wind), "major", "gusty_wind",
              "Gusts well above limit")
      ELSE IF g > max_wind + 5 THEN
        Risky("caution", Some(g - max_wind), "moderate", "gusty_wind",
              "Gusts above preferred wind")
      ELSE IF g > max_wind THEN
        Plain("acceptable", Some(g - max_wind), <<"Gusts slightly above preferred wind">>)
      ELSE
        Plain("ideal", Some(max_wind - g), <<"Gusts within preference">>)

\* prefs.max_aqi or 80
MaxAqi(prefs) ==
    IF IsNone(prefs.max_aqi) \/ prefs.max_aqi = Some(0)
    THEN 80 ELSE Val(prefs.max_aqi)

\* _judge_aqi with the caution test written aqi >= max_aqi.
JudgeAqiCautionAtLimit(aqi, prefs) ==
    LET max_aqi == MaxAqi(prefs)
        avoid_poor == prefs.avoid_poor_aqi # Some(FALSE)
    IN
    IF IsNone(aqi) THEN Plain("unknown", None, <<>>)
    ELSE
      LET a == Val(aqi)
          distance == a - max_aqi
      IN
      IF a >= 151 THEN
        Risky("avoid", Some(distance), "major", "poor_air_quality", "AQI unhealthy")
      ELSE IF avoid_poor /\ a >= max_aqi THEN
        Risky("caution", Some(distance), "moderate", "poor_air_quality",
              "AQI exceeds preferred max")
      ELSE IF a <= 50 THEN
        Plain("ideal", Some(distance), <<"AQI good">>)
      ELSE
        Plain("acceptable", Some(distance), <<"AQI within preferred range">>)

_judge_aqi(aqi, prefs) ==
    LET max_aqi == MaxAqi(prefs)
        avoid_poor == prefs.avoid_poor_aqi # Some(FALSE)   \* is not False
    IN
    IF IsNone(aqi) THEN Plain("unknown", None, <<>>)
    ELSE
      LET a == Val(aqi)
          distance == a - max_aqi
      IN
      IF a >= 151 THEN
        Risky("avoid", Some(distance), "major", "poor_air_quality", "AQI unhealthy")
      ELSE IF avoid_poor /\ a > max_aqi THEN
        Risky("caution", Some(distance), "moderate", "poor_air_quality",
              "AQI exceeds preferred max")
      ELSE IF a <= 50 THEN
        Plain("ideal", Some(distance), <<"AQI good">>)
      ELSE
        Plain("acceptable", Some(distance), <<"AQI within preferred range">>)

\* _judge_precip with the statuses of the two avoid_precip branches exchanged.
JudgePrecipStatusesExchanged(prob, prefs) ==
    LET avoid_precip == prefs.avoid_precip # Some(FALSE) IN
    IF IsNone(prob) THEN Plain("unknown", None, <<>>)
    ELSE
      LET p == Val(prob) IN
      IF avoid_precip /\ p >= 70 THEN
        Risky("caution", Some(p), "moderate", "precipitation",
              "Precipitation probability high")
      ELSE IF avoid_precip /\ p >= 50 THEN
        Risky("avoid", Some(p), "minor", "precipitation",
              "Precipitation probability elevated")
      ELSE IF p >= 80 THEN
        Risky("caution", Some(p), "minor", "precipitation",
              "Precipitation probability may impact ride")
      ELSE IF p >= 20 THEN
        Plain("acceptable", Some(p), <<"Precipitation probability low">>)
      ELSE
        Plain("ideal", Some(p), <<"Precipitation probability minimal">>)

_judge_precip(prob, prefs) ==
    LET avoid_precip == prefs.avoid_precip # Some(FALSE) IN   \* is not False
    IF IsNone(prob) THEN Plain("unknown", None, <<>>)
    ELSE
      LET p == Val(prob) IN
      IF avoid_precip /\ p >= 70 THEN
        Risky("avoid", Some(p), "moderate", "precipitation",
              "Precipitation probability high")
      ELSE IF avoid_precip /\ p >= 50 THEN
        Risky("caution", Some(p), "minor", "precipitation",
              "Precipitation probability elevated")
      ELSE IF p >= 80 THEN
        Risky("caution", Some(p), "minor", "precipitation",
              "Precipitation probability may impact ride")
      ELSE IF p >= 20 THEN
        Plain("acceptable", Some(p), <<"Precipitation probability low">>)
      ELSE
        Plain("ideal", Some(p), <<"Precipitation probability minimal">>)

\* _judge_daylight testing the reading for None ahead of the preference.
JudgeDaylightNullFirst(is_day, prefs) ==
    IF IsNone(is_day) THEN Plain("unknown", None, <<>>)
    ELSE IF prefs.prefer_daylight # Some(TRUE)
    THEN Plain("ideal", None, <<>>)
    ELSE IF ~Val(is_day) THEN
      [j |-> MeasureJudgment("caution", None, None, <<"Riding in darkness">>),
       r |-> <<RiskFlag("darkness", "minor", <<"Riding in darkness">>)>>]
    ELSE Plain("ideal", None, <<"Daylight ride">>)

_judge_daylight(is_day, prefs) ==
    IF prefs.prefer_daylight # Some(TRUE)          \* not prefs.prefer_daylight
    THEN Plain("ideal", None, <<>>)
    ELSE IF IsNone(is_day) THEN Plain("unknown", None, <<>>)
    ELSE IF ~Val(is_day) THEN
      \* the darkness judgment carries a risk but no severity
      [j |-> MeasureJudgment("caution", None, None, <<"Riding in darkness">>),
       r |-> <<RiskFlag("darkness", "minor", <<"Riding in darkness">>)>>]
    ELSE Plain("ideal", None, <<"Daylight ride">>)

----------------------------------------------------------------------------
(* Decision and score of one hour *)

\* The set of statuses of a judgment map.
StatusesOf(judgments) == {judgments[k].status : k \in DOMAIN judgments}

\* _compute_decision with the caution test ahead of the avoid test.
ComputeDecisionCautionFirst(judgments) ==
    LET statuses == StatusesOf(judgments) IN
    IF "caution" \in statuses THEN "go_with_caution"
    ELSE IF "avoid" \in statuses THEN "avoid"
    ELSE IF statuses = {"unknown"} \/ statuses = {} THEN "unknown"
    ELSE "go"

_compute_decision(judgments) ==
    LET statuses == StatusesOf(judgments) IN
    IF "avoid" \in statuses THEN "avoid"
    ELSE IF "caution" \in statuses THEN "go_with_caution"
    ELSE IF statuses = {"unknown"} \/ statuses = {} THEN "unknown"
    ELSE "go"

\* The largest k in lo..hi with k*k <= n (lo*lo <= n assumed).
RECURSIVE ISqrtIn(_, _, _)
ISqrtIn(n, lo, hi) ==
    IF lo >= hi THEN lo
    ELSE LET mid == (lo + hi + 1) \div 2 IN
         IF mid * mid <= n THEN ISqrtIn(n, mid, hi) ELSE ISqrtIn(n, lo, mid - 1)

\* min(4.0, (distance / 10.0) ** 1.5 * 2.0) in thousandths, rounded down:
\* the square of 2000 * (d/10)^1.5 is 4000 * d^3, and it reaches 4000^2
\* exactly when d^3 >= 4000.
_temperature_penalty(distance) ==
    IF IsNone(distance) \/ distance = Some(0) THEN 0      \* not distance
    ELSE IF Val(distance) <= 0 THEN 0
    ELSE LET d == Val(distance) IN
         IF d * d * d >= 4000 THEN 4000
         ELSE ISqrtIn(4000 * d * d * d, 0, 4000)

\* _clamp_score without the lower bound: min(10.0, score).
ClampScoreFromAboveOnly(score) == IF score > 10000 THEN 10000 ELSE score

_clamp_score(score) ==
    IF score > 10000 THEN 10000 ELSE IF score < 0 THEN 0 ELSE score

\* The penalty one judgment subtracts in _score_hour's loop.
JudgmentPenalty(key, j) ==
    (IF j.status = "avoid" THEN 4000
     ELSE IF j.status = "caution" THEN 2000
     ELSE IF j.status = "acceptable" THEN 1000
     ELSE 0)
    + (IF key = "temperature_f"
       THEN _temperature_penalty(j.distance_from_preference) ELSE 0)

RECURSIVE SumPenalties(_, _)
SumPenalties(judgments, keys) ==
    IF keys = {} THEN 0
    ELSE LET k == CHOOSE x \in keys : TRUE IN
         JudgmentPenalty(k, judgments[k]) + SumPenalties(judgments, keys \ {k})

_score_hour(judgments) ==
    _clamp_score(10000 - SumPenalties(judgments, DOMAIN judgments))

----------------------------------------------------------------------------
(* assess_hour *)

\* isinstance(time_val, datetime): the snapshot has a time and it is a datetime.
HasValidTime(snap) == ~IsNone(snap.time)

\* The six judges in assess_hour's order, each applied to its reading.
Judged(prefs, snap) ==
    <<_judge_temperature(snap.temperature, prefs),
      _judge_wind(snap.wind_speed, prefs),
      _judge_gusts(snap.wind_gusts, prefs),
      _judge_aqi(snap.us_aqi, prefs),
      _judge_precip(snap.precipitation_prob, prefs),
      _judge_daylight(snap.is_day, prefs)>>

\* The risks of the judges, the last judge's first.
RECURSIVE ConcatRisksReversed(_, _)
ConcatRisksReversed(judged, n) ==
    IF n = 0 THEN <<>> ELSE judged[n].r \o ConcatRisksReversed(judged, n - 1)

RECURSIVE ConcatRisks(_, _)
ConcatRisks(judged, n) ==
    IF n = 0 THEN <<>> ELSE ConcatRisks(judged, n - 1) \o judged[n].r

KeyIndex(k) == CHOOSE i \in 1..Len(JudgmentKeys) : JudgmentKeys[i] = k

\* assess_hour keeping only the judgments whose status is not unknown.
AssessHourWithoutUnknownJudgments(prefs, snap) ==
    LET judged == Judged(prefs, snap)
        judgments == [k \in {JudgmentKeys[i] : i \in
                                {n \in 1..Len(JudgmentKeys) : judged[n].j.status # "unknown"}} |->
                         judged[KeyIndex(k)].j]
    IN
    [time |-> Val(snap.time),
     hour_index |-> snap.hour_index,
     decision |-> _compute_decision(judgments),
     judgments |-> judgments,
     risks |-> ConcatRisks(judged, Len(judged)),
     hour_score |-> Some(_score_hour(judgments))]

\* The HourAssessment assess_hour returns for a snapshot with a valid time.
assess_hour(prefs, snap) ==
    LET judged == Judged(prefs, snap)
        judgments == [k \in {JudgmentKeys[i] : i \in 1..Len(JudgmentKeys)} |->
                         judged[KeyIndex(k)].j]
    IN
    [time |-> Val(snap.time),
     hour_index |-> snap.hour_index,
     decision |-> _compute_decision(judgments),
     judgments |-> judgments,
     risks |-> ConcatRisks(judged, Len(judged)),
     hour_score |-> Some(_score_hour(judgments))]

----------------------------------------------------------------------------
(* Trends (src/app/domain.py DEFAULT_MEASURE_POLICIES, _trend_direction,   *)
(* _apply_trends)                                                          *)

MeasurePolicy(deadband, directionality) ==
    [trend_deadband |-> deadband, directionality |-> directionality]

\* The entries of DEFAULT_MEASURE_POLICIES.  The entries of the three keys no
\* judgment ever has (apparent_temperature_f shares temperature_f's values;
\* precipitation_mm and uv_index have the fractional deadbands 0.1 and 0.2)
\* are never read through a judgment key and are left out.
DEFAULT_MEASURE_POLICIES ==
    [k \in {"temperature_f", "wind_speed_mph", "wind_gusts_mph", "us_aqi",
            "precipitation_prob_percent"} |->
        CASE k = "temperature_f" -> MeasurePolicy(Some(1), "target_band")
          [] k = "wind_speed_mph" -> MeasurePolicy(Some(1), "lower_is_better")
          [] k = "wind_gusts_mph" -> MeasurePolicy(Some(2), "lower_is_better")
          [] k = "us_aqi" -> MeasurePolicy(Some(3), "lower_is_better")
          [] k = "precipitation_prob_percent" -> MeasurePolicy(Some(5), "lower_is_better")]

Abs(x) == IF x < 0 THEN -x ELSE x

\* _trend_direction with a strict deadband test: abs(delta) < deadband.
TrendDirectionStrictDeadband(value, prev, policy) ==
    LET delta == value - prev
        deadband == IF IsNone(policy.trend_deadband) THEN 0
                    ELSE Val(policy.trend_deadband)
    IN
    IF Abs(delta) < deadband THEN "stable"
    ELSE IF policy.directionality = "higher_is_better" THEN
        (IF delta > 0 THEN "improving" ELSE "worsening")
    ELSE (IF delta < 0 THEN "improving" ELSE "worsening")

_trend_direction(value, prev, policy) ==
    LET delta == value - prev
        deadband == IF IsNone(policy.trend_deadband) THEN 0
                    ELSE Val(policy.trend_deadband)     \* trend_deadband or 0.0
    IN
    IF Abs(delta) <= deadband THEN "stable"
    ELSE IF policy.directionality = "higher_is_better" THEN
        (IF delta > 0 THEN "improving" ELSE "worsening")
    ELSE IF policy.directionality = "lower_is_better" THEN
        (IF delta < 0 THEN "improving" ELSE "worsening")
    ELSE
        (IF delta < 0 THEN "improving" ELSE "worsening")

\* policies.get(key, DEFAULT_MEASURE_POLICIES.get(key)), as an optional policy.
PolicyFor(policy_map, key) ==
    IF key \in DOMAIN policy_map THEN Some(policy_map[key])
    ELSE IF key \in DOMAIN DEFAULT_MEASURE_POLICIES THEN Some(DEFAULT_MEASURE_POLICIES[key])
    ELSE None

\* _apply_trends reading a missing distance as 0.0 (distance or 0.0).
TrendedJudgmentNullAsZero(current, prev, policy_map, key) ==
    LET judgment == current.judgments[key]
        policy == IF key \in DOMAIN policy_map THEN Some(policy_map[key])
                  ELSE IF key \in DOMAIN DEFAULT_MEASURE_POLICIES
                  THEN Some(DEFAULT_MEASURE_POLICIES[key]) ELSE None
        OrZero(d) == IF IsNone(d) THEN 0 ELSE Val(d)
    IN
    IF IsNone(policy) \/ key \notin DOMAIN prev.judgments THEN judgment
    ELSE
      LET val == OrZero(judgment.distance_from_preference)
          prev_val == OrZero(prev.judgments[key].distance_from_preference)
      IN [judgment EXCEPT !.trend = Some(_trend_direction(val, prev_val, Val(policy))),
                          !.trend_delta = Some(val - prev_val),
                          !.trend_confidence = Some(1)]

\* Whether _apply_trends reaches the three assignments for this key.
TrendApplies(current, prev, policy_map, key) ==
    /\ ~IsNone(PolicyFor(policy_map, key))
    /\ key \in DOMAIN prev.judgments
    /\ ~IsNone(current.judgments[key].distance_from_preference)
    /\ ~IsNone(prev.judgments[key].distance_from_preference)

\* The judgment of `key` after _apply_trends(current, prev, policies).
TrendedJudgment(current, prev, policy_map, key) ==
    LET judgment == current.judgments[key] IN
    IF ~TrendApplies(current, prev, policy_map, key) THEN judgment
    ELSE
      LET val == Val(judgment.distance_from_preference)
          prev_val == Val(prev.judgments[key].distance_from_preference)
          trend == _trend_direction(val, prev_val, Val(PolicyFor(policy_map, key)))
      IN
      IF trend = "unknown" THEN judgment
      ELSE [judgment EXCEPT !.trend = Some(trend),
                            !.trend_delta = Some(val - prev_val),
                            !.trend_confidence = Some(1)]   \* 1.0

\* _apply_trends storing the delta in distance_from_preference as well.
ApplyTrendsOverwritingDistance(current, prev, policy_map) ==
    IF IsNone(prev) THEN current
    ELSE [current EXCEPT !.judgments =
            [k \in DOMAIN current.judgments |->
                LET j == TrendedJudgment(current, Val(prev), policy_map, k) IN
                IF IsNone(j.trend_delta) THEN j
                ELSE [j EXCEPT !.distance_from_preference = j.trend_delta]]]

\* `current` after _apply_trends(current, prev, policies); prev is optional.
_apply_trends(current, prev, policy_map) ==
    IF IsNone(prev) THEN current
    ELSE [current EXCEPT !.judgments =
            [k \in DOMAIN current.judgments |->
                TrendedJudgment(current, Val(prev), policy_map, k)]]

----------------------------------------------------------------------------
(* assess_timeline *)

\* [h for h in (conditions.forecast or []) if h is not None]
RECURSIVE NonNullEntries(_)
NonNullEntries(forecast) ==
    IF forecast = <<>> THEN <<>>
    ELSE (IF IsNone(Head(forecast)) THEN <<>> ELSE <<Val(Head(forecast))>>)
         \o NonNullEntries(Tail(forecast))

\* hour_index or 0
HourIndexOrZero(snap) == IF IsNone(snap.hour_index) THEN 0 ELSE Val(snap.hour_index)

\* The sort key without its second component: time alone.
TimelineKeyLessByTimeOnly(a, b) == Val(a.time) < Val(b.time)

\* (time, hour_index or 0) of a is less than that of b (both times valid).
TimelineKeyLess(a, b) ==
    \/ Val(a.time) < Val(b.time)
    \/ Val(a.time) = Val(b.time) /\ HourIndexOrZero(a) < HourIndexOrZero(b)

\* Insert x after every element whose key is not greater: list.sort is stable.
RECURSIVE InsertByTimelineKey(_, _)
InsertByTimelineKey(x, sorted) ==
    IF sorted = <<>> THEN <<x>>
    ELSE IF TimelineKeyLess(x, Head(sorted)) THEN <<x>> \o sorted
    ELSE <<Head(sorted)>> \o InsertByTimelineKey(x, Tail(sorted))

RECURSIVE SortTimeline(_, _)
SortTimeline(hours, n) ==
    IF n = 0 THEN <<>>
    ELSE InsertByTimelineKey(hours[n], SortTimeline(hours, n - 1))

\* hours.sort(...) compares the keys of a list of two or more entries; a key
\* whose time is None cannot be ordered against one whose time is a datetime.
SortRaises(hours) ==
    /\ Len(hours) >= 2
    /\ \E i, j \in 1..Len(hours) : ~HasValidTime(hours[i]) /\ HasValidTime(hours[j])

RECURSIVE AssessAll(_, _)
AssessAll(prefs, hours) ==
    IF hours = <<>> THEN <<>>
    ELSE <<assess_hour(prefs, Head(hours))>> \o AssessAll(prefs, Tail(hours))

\* An hour with a synthetic unknown judgment for every key of key_set it lacks.
NormalizeKeys(a, key_set) ==
    [a EXCEPT !.judgments =
        [k \in key_set \cup DOMAIN a.judgments |->
            IF k \in DOMAIN a.judgments THEN a.judgments[k]
            ELSE MeasureJudgment("unknown", None, None, <<>>)]]

\* The trend pass: hour i is compared with hour i-1, the first with `seed`.
RECURSIVE TrendPass(_, _, _, _)
TrendPass(as, seed, policy_map, n) ==
    IF n = 0 THEN <<>>
    ELSE Append(TrendPass(as, seed, policy_map, n - 1),
                _apply_trends(as[n],
                              IF n = 1 THEN seed ELSE Some(as[n - 1]),
                              policy_map))

\* policies or DEFAULT_MEASURE_POLICIES
PolicyMap(pols) ==
    IF IsNone(pols) \/ DOMAIN Val(pols) = {} THEN DEFAULT_MEASURE_POLICIES ELSE Val(pols)

\* The outcome of assess_timeline: the exception raised ("none" if it
\* returned) and the two components of the result.
assess_timeline(prefs, conds, pols) ==
    LET hours == NonNullEntries(conds.forecast)
        Raised(e) == [error |-> e, current |-> None, hourly |-> <<>>]
    IN
    IF ~IsNone(conds.current) /\ ~HasValidTime(Val(conds.current))
    THEN Raised("ValueError")
    ELSE IF SortRaises(hours) THEN Raised("TypeError")
    ELSE IF \E i \in 1..Len(hours) : ~HasValidTime(hours[i]) THEN Raised("ValueError")
    ELSE
      LET cur == IF IsNone(conds.current) THEN None
                 ELSE Some(assess_hour(prefs, Val(conds.current)))
          assessed == AssessAll(prefs, SortTimeline(hours, Len(hours)))
          key_set == IF ~IsNone(cur) THEN DOMAIN Val(cur).judgments
                     ELSE IF assessed # <<>> THEN DOMAIN assessed[1].judgments
                     ELSE {}
          normalized == [i \in 1..Len(assessed) |-> NormalizeKeys(assessed[i], key_set)]
      IN
      [error |-> "none",
       current |-> cur,
       hourly |-> TrendPass(normalized, cur, PolicyMap(pols), Len(normalized))]

----------------------------------------------------------------------------
(* Window recommendations *)

\* _consecutive without the abs(): a gap shorter than an hour passes.
ConsecutiveWithoutAbs(hours) ==
    \/ Len(hours) < 2
    \/ \A i \in 1..(Len(hours) - 1) :
          (hours[i + 1].time - hours[i].time) - 3600 <= 90

\* _consecutive: every gap between neighbours is within 90 s of one hour.
_consecutive(hours) ==
    \/ Len(hours) < 2
    \/ \A i \in 1..(Len(hours) - 1) :
          Abs((hours[i + 1].time - hours[i].time) - 3600) <= 90

DecisionsOf(hours) == {hours[i].decision : i \in 1..Len(hours)}

\* _aggregate_decision with the go_with_caution test ahead of the avoid test.
AggregateDecisionCautionFirst(hours) ==
    LET decisions == DecisionsOf(hours) IN
    IF "go_with_caution" \in decisions THEN "go_with_caution"
    ELSE IF "avoid" \in decisions THEN "avoid"
    ELSE IF "go" \in decisions THEN "go"
    ELSE "unknown"

_aggregate_decision(hours) ==
    LET decisions == DecisionsOf(hours) IN
    IF "avoid" \in decisions THEN "avoid"
    ELSE IF "go_with_caution" \in decisions THEN "go_with_caution"
    ELSE IF "go" \in decisions THEN "go"
    ELSE "unknown"

\* sorted(hourly, key=lambda h: h.time): stable, ascending by time.
RECURSIVE InsertByTime(_, _)
InsertByTime(x, sorted) ==
    IF sorted = <<>> THEN <<x>>
    ELSE IF x.time < Head(sorted).time THEN <<x>> \o sorted
    ELSE <<Head(sorted)>> \o InsertByTime(x, Tail(sorted))

RECURSIVE SortByTime(_, _)
SortByTime(hours, n) ==
    IF n = 0 THEN <<>> ELSE InsertByTime(hours[n], SortByTime(hours, n - 1))

HourlySorted(hours) == SortByTime(hours, Len(hours))

\* ceil(duration / 60) for an integer number of minutes.
\* duration // 60: the minutes rounded down to whole hours.
NeededHoursRoundedDown(duration) == duration \div 60

NeededHours(duration) == -((-duration) \div 60)

\* Python's s[start:stop] for 0 <= start, with a stop that may be negative
\* (counted from the end) or beyond the end.
PySlice(s, start, stop) ==
    LET n == Len(s)
        hi == IF stop < 0 THEN (IF stop + n < 0 THEN 0 ELSE stop + n)
              ELSE (IF stop > n THEN n ELSE stop)
    IN IF start >= hi THEN <<>> ELSE SubSeq(s, start + 1, hi)

\* h.hour_score or 0.0
ScoreOrZero(h) == IF IsNone(h.hour_score) THEN 0 ELSE Val(h.hour_score)

RECURSIVE SumScores(_)
SumScores(hours) ==
    IF hours = <<>> THEN 0 ELSE ScoreOrZero(Head(hours)) + SumScores(Tail(hours))

\* The mean over the scored hours only (as _suitability_score takes it).
WindowScoreOfScoredHours(slice_hours, needed_hours) ==
    LET scored == {i \in 1..Len(slice_hours) : ~IsNone(slice_hours[i].hour_score)} IN
    [num |-> SumScores(slice_hours),
     den |-> IF scored = {} THEN needed_hours ELSE Cardinality(scored)]

\* sum((h.hour_score or 0.0) for h in slice_hours) / needed_hours
WindowScore(slice_hours, needed_hours) ==
    [num |-> SumScores(slice_hours), den |-> needed_hours]

RECURSIVE ExtendRisks(_)
ExtendRisks(hours) ==
    IF hours = <<>> THEN <<>> ELSE Head(hours).risks \o ExtendRisks(Tail(hours))

\* The WindowRecommendation built for a slice.  `hours` is not a field of the
\* code's WindowRecommendation: it records the slice the window was scored
\* over, so that properties can speak of the hours a recommendation covers.
\* The single reason string ("Average score ... over ... hour(s)") is left out.
WindowRecommendation(slice_hours, needed_hours, duration) ==
    [start |-> slice_hours[1].time,
     end |-> slice_hours[Len(slice_hours)].time,
     duration |-> duration,
     decision |-> _aggregate_decision(slice_hours),
     window_score |-> WindowScore(slice_hours, needed_hours),
     risks |-> ExtendRisks(slice_hours),
     hours |-> slice_hours]

\* One iteration of the inner loop, for 0-based start_idx: it continues
\* ("skip"), appends a recommendation ("rec") or raises ("raise").
WindowStep(hourly_sorted, start_idx, duration) ==
    LET needed_hours == NeededHours(duration)
        slice_hours == PySlice(hourly_sorted, start_idx, start_idx + needed_hours)
    IN
    IF Len(slice_hours) < needed_hours THEN [kind |-> "skip"]
    ELSE IF ~_consecutive(slice_hours) THEN [kind |-> "skip"]
    ELSE IF \E i \in 1..Len(slice_hours) : slice_hours[i].decision = "avoid"
    THEN [kind |-> "skip"]
    ELSE IF needed_hours = 0 THEN [kind |-> "raise", error |-> "ZeroDivisionError"]
    ELSE IF slice_hours = <<>> THEN [kind |-> "raise", error |-> "IndexError"]
    ELSE [kind |-> "rec",
          rec |-> WindowRecommendation(slice_hours, needed_hours, duration)]

\* The two nested loops from their p-th iteration on (p counts the pairs
\* (start_idx, duration) from 0 in loop order): the recommendations appended,
\* or the first exception raised.
RECURSIVE WindowLoop(_, _, _)
WindowLoop(hourly_sorted, durations, p) ==
    IF durations = <<>> \/ p >= Len(hourly_sorted) * Len(durations)
    THEN [error |-> "none", recs |-> <<>>]
    ELSE
      LET step == WindowStep(hourly_sorted, p \div Len(durations),
                             durations[(p % Len(durations)) + 1])
      IN
      IF step.kind = "raise" THEN [error |-> step.error, recs |-> <<>>]
      ELSE
        LET rest == WindowLoop(hourly_sorted, durations, p + 1) IN
        IF rest.error # "none" THEN rest
        ELSE [error |-> "none",
              recs |-> (IF step.kind = "rec" THEN <<step.rec>> ELSE <<>>) \o rest.recs]

\* Fractions with non-zero denominators: a < b and a = b.
FracLess(a, b) == a.num * a.den * b.den * b.den < b.num * b.den * a.den * a.den

FracEq(a, b) == a.num * b.den = b.num * a.den

\* The sort key (window_score, start): ascending by score.
RecKeyLessAscending(a, b) ==
    \/ FracLess(a.window_score, b.window_score)
    \/ FracEq(a.window_score, b.window_score) /\ a.start < b.start

\* The sort key (-window_score, start) of a is less than that of b.
RecKeyLess(a, b) ==
    \/ FracLess(b.window_score, a.window_score)
    \/ FracEq(a.window_score, b.window_score) /\ a.start < b.start

\* recs.sort(key=...): stable.
RECURSIVE InsertRec(_, _)
InsertRec(x, sorted) ==
    IF sorted = <<>> THEN <<x>>
    ELSE IF RecKeyLess(x, Head(sorted)) THEN <<x>> \o sorted
    ELSE <<Head(sorted)>> \o InsertRec(x, Tail(sorted))

RECURSIVE SortRecs(_, _)
SortRecs(rs, n) ==
    IF n = 0 THEN <<>> ELSE InsertRec(rs[n], SortRecs(rs, n - 1))

\* The outcome of compute_window_recommendations: the exception raised
\* ("none" if it returned) and the list returned.
compute_window_recommendations(hours, durations) ==
    IF hours = <<>> THEN [error |-> "none", recs |-> <<>>]
    ELSE
      LET loop == WindowLoop(HourlySorted(hours), durations, 0) IN
      IF loop.error # "none" THEN loop
      ELSE [error |-> "none", recs |-> SortRecs(loop.recs, Len(loop.recs))]

----------------------------------------------------------------------------
(* Summary *)

_overall_decision(hours) ==
    LET decisions == DecisionsOf(hours) IN
    IF "avoid" \in decisions THEN "avoid"
    ELSE IF "go_with_caution" \in decisions THEN "go_with_caution"
    ELSE IF "go" \in decisions THEN "go"
    ELSE "unknown"

\* [h.hour_score for h in hours if h.hour_score is not None]
RECURSIVE Scored(_)
Scored(hours) ==
    IF hours = <<>> THEN <<>>
    ELSE (IF IsNone(Head(hours).hour_score) THEN <<>> ELSE <<Val(Head(hours).hour_score)>>)
         \o Scored(Tail(hours))

RECURSIVE SumSeq(_)
SumSeq(s) == IF s = <<>> THEN 0 ELSE Head(s) + SumSeq(Tail(s))

\* _suitability_score dividing by the number of hours, a missing score as 0.
SuitabilityScoreOverAllHours(hours) ==
    LET scored == Scored(hours) IN
    IF scored = <<>> THEN None
    ELSE Some([num |-> SumSeq(scored), den |-> Len(hours)])

\* The optional mean, as a fraction.
_suitability_score(hours) ==
    LET scored == Scored(hours) IN
    IF scored = <<>> THEN None
    ELSE Some([num |-> SumSeq(scored), den |-> Len(scored)])

\* The loop of _dedupe_limit_flags: the flags whose (code, severity) pair
\* was not seen among the flags before them.
RECURSIVE UniqueFlags(_, _)
UniqueFlags(fs, n) ==
    IF n = 0 THEN <<>>
    ELSE LET before == UniqueFlags(fs, n - 1) IN
         IF \E i \in 1..(n - 1) :
               fs[i].code = fs[n].code /\ fs[i].severity = fs[n].severity
         THEN before ELSE Append(before, fs[n])

\* s[:k] for k >= 0
Prefix(s, k) == SubSeq(s, 1, IF k < Len(s) THEN k ELSE Len(s))

\* _dedupe_limit_flags returning `unique` whole, without the [:max_flags].
DedupeWithoutLimit(fs, max_flags) == UniqueFlags(fs, Len(fs))

_dedupe_limit_flags(fs, max_flags) == Prefix(UniqueFlags(fs, Len(fs)), max_flags)

_primary_limiters(hours, max_flags) == _dedupe_limit_flags(ExtendRisks(hours), max_flags)

\* The window_flags loop stopping after the first of the best windows.
WindowFlagsOfTopWindow(ws) == IF ws = <<>> THEN <<>> ELSE Head(ws).risks

RECURSIVE WindowFlags(_)
WindowFlags(ws) ==
    IF ws = <<>> THEN <<>> ELSE Head(ws).risks \o WindowFlags(Tail(ws))

\* build_summary taking the limiters from the hours whatever the windows.
BuildSummaryFromHours(hours, windows) ==
    LET best == Prefix(windows, 3) IN
    [overall_decision |-> _overall_decision(hours),
     suitability_score |-> _suitability_score(hours),
     primary_limiters |-> _primary_limiters(hours, 3),
     best_windows |-> best]

build_summary(hours, windows) ==
    LET best == Prefix(windows, 3) IN
    [overall_decision |-> _overall_decision(hours),
     suitability_score |-> _suitability_score(hours),
     primary_limiters |-> IF best # <<>>
                          THEN _dedupe_limit_flags(WindowFlags(best), 3)
                          ELSE _primary_limiters(hours, 3),
     best_windows |-> best]

----------------------------------------------------------------------------
(* Inputs *)

\* Longest hour list passed to the window and summary functions.
MaxHours == 3

\* Longest forecast passed to assess_timeline.
MaxForecast == 2

\* Longest flag list passed to _dedupe_limit_flags.
MaxFlags == 5

\* All sequences over S of length at most n.
SeqsUpTo(S, n) == UNION {[1..k -> S] : k \in 0..n}

RiderPreferences(range, daylight, wind, poor_aqi, aqi, precip) ==
    [preferred_temp_range_f |-> range, prefer_daylight |-> daylight,
     max_wind_mph |-> wind, avoid_poor_aqi |-> poor_aqi, max_aqi |-> aqi,
     avoid_precip |-> precip]

\* The preferences of the tests, RiderPreferences() with every field None,
\* a rider with another band and limits and every avoidance switched off,
\* and a rider whose band starts below freezing and whose AQI limit is above
\* the unhealthy level of 151.
TestPrefs ==
    RiderPreferences(Some(<<65, 93>>), Some(TRUE), Some(25), Some(TRUE), Some(80), Some(TRUE))

PrefChoices ==
    {TestPrefs,
     RiderPreferences(None, None, None, None, None, None),
     RiderPreferences(Some(<<50, 70>>), Some(FALSE), Some(20), Some(FALSE), Some(100),
                      Some(FALSE)),
     RiderPreferences(Some(<<30, 60>>), Some(TRUE), Some(10), Some(FALSE), Some(160),
                      Some(TRUE))}

Snapshot(time, hour_index, temperature, wind_speed, wind_gusts, us_aqi, precip, is_day) ==
    [time |-> time, hour_index |-> hour_index, temperature |-> temperature,
     wind_speed |-> wind_speed, wind_gusts |-> wind_gusts, us_aqi |-> us_aqi,
     precipitation_prob |-> precip, is_day |-> is_day]

Optional(S) == {None} \cup {Some(x) : x \in S}

\* Readings on every side of every threshold of the judges.
HourSnapshots ==
    {Snapshot(Some(0), Some(0), t, w, g, a, p, d) :
        t \in Optional({25, 30, 33, 50, 58, 70, 96, 100, 110}),
        w \in Optional({10, 21, 26, 31}),
        g \in Optional({15, 27, 32, 42}),
        a \in Optional({30, 80, 90, 151}),
        p \in Optional({10, 30, 50, 70, 80}),
        d \in Optional(BOOLEAN)}

\* Timeline snapshots: temperatures whose distances from the band 65-93 are
\* 0, 1 and 2 (the default deadband is 1), wind speeds 2 mph apart.
TimelineSnapshots(times, winds) ==
    {Snapshot(Some(tm), None, t, Some(w), None, Some(30), Some(10), Some(TRUE)) :
        tm \in times, t \in Optional({70, 64, 63}), w \in winds}

PolicyChoices ==
    {None,
     Some([k \in {"temperature_f"} |-> MeasurePolicy(None, "higher_is_better")]),
     Some([k \in {"temperature_f", "wind_speed_mph"} |->
              IF k = "temperature_f" THEN MeasurePolicy(Some(1), "lower_is_better")
              ELSE MeasurePolicy(Some(1), "higher_is_better")])}

\* A hand-built HourAssessment, as the tests build them.
HourAssessment(time, decision, risks, hour_score) ==
    [time |-> time, hour_index |-> Some(0), decision |-> decision,
     judgments |-> [k \in {"temperature_f"} |-> MeasureJudgment("ideal", None, None, <<>>)],
     risks |-> risks, hour_score |-> hour_score]

\* Timestamps whose gaps fall on both sides of both ends of the tolerance:
\* 3509 and 3691 (rejected), 3510 and 3690 (accepted), and real gaps.
WindowTimes == {0, 3509, 3510, 7200}

WindowHours ==
    {HourAssessment(tm, d, <<>>, s) :
        tm \in WindowTimes, d \in {"go", "avoid"}, s \in {None, Some(9000)}}

DurationChoices ==
    {<<45, 60, 90, 120>>, <<120, 60>>, <<150>>, <<0>>, <<60, -60>>}

DarknessFlag == RiskFlag("darkness", "minor", <<"Riding in darkness">>)

\* Hours of a summary: the i-th hour of the list is at i hours.
SummaryHourChoices ==
    {[decision |-> d, risks |-> r, hour_score |-> s] :
        d \in Decisions, r \in {<<>>, <<DarknessFlag>>}, s \in {None, Some(8000)}}

SummaryHours(choice) ==
    [i \in DOMAIN choice |->
        HourAssessment(3600 * i, choice[i].decision, choice[i].risks, choice[i].hour_score)]

FlagChoices ==
    {RiskFlag(c, v, <<e>>) :
        c \in {"high_wind", "darkness"}, v \in {"minor", "moderate"},
        e \in {"first", "second"}}

----------------------------------------------------------------------------
(* Initial states: the arguments of a call, nothing called yet *)

NoStoreCall ==
    /\ clock = 0
    /\ store = [kind |-> "memory", ttl |-> 3600, max_age |-> None,
                sessions |-> [k \in {} |-> k]]
    /\ generated = 0
    /\ returned = None
    /\ history = [created |-> [k \in {} |-> k], touched |-> [k \in {} |-> k],
                  expired |-> {}]
    /\ updaters = [k \in {} |-> k]
    /\ request = None

NoHourCall == hour_snapshot = None /\ assessment = None

NoTimelineCall ==
    /\ conditions = [current |-> None, forecast |-> <<>>]
    /\ policies = None
    /\ current_assessment = None
    /\ hourly_assessments = <<>>

NoWindowCall ==
    /\ hourly = <<>>
    /\ durations_minutes = <<>>
    /\ recs = <<>>
    /\ window_decision = None
    /\ summary = None

NoDedupeCall == flags = <<>> /\ limiters = <<>>

InitHour ==
    /\ preferences \in PrefChoices
    /\ hour_snapshot \in {Some(h) : h \in HourSnapshots}
    /\ assessment = None
    /\ NoTimelineCall /\ NoWindowCall /\ NoDedupeCall
    /\ NoStoreCall
    /\ error = "none" /\ pc = "input"

InitTimeline ==
    /\ preferences = TestPrefs
    /\ conditions \in
          [current : Optional(TimelineSnapshots({0}, {10})),
           forecast : SeqsUpTo(Optional(TimelineSnapshots({3600, 7200}, {10, 12})),
                               MaxForecast)]
    /\ policies \in PolicyChoices
    /\ current_assessment = None
    /\ hourly_assessments = <<>>
    /\ NoHourCall /\ NoWindowCall /\ NoDedupeCall
    /\ NoStoreCall
    /\ error = "none" /\ pc = "input"

InitWindows ==
    /\ preferences = TestPrefs
    /\ hourly \in SeqsUpTo(WindowHours, MaxHours)
    /\ durations_minutes \in DurationChoices
    /\ recs = <<>> /\ window_decision = None /\ summary = None
    /\ NoHourCall /\ NoTimelineCall /\ NoDedupeCall
    /\ NoStoreCall
    /\ error = "none" /\ pc = "input"

InitSummary ==
    /\ preferences = TestPrefs
    /\ hourly \in {SummaryHours(c) : c \in SeqsUpTo(SummaryHourChoices, MaxHours)}
    /\ durations_minutes = <<45, 60, 90, 120>>
    /\ recs = <<>> /\ window_decision = None /\ summary = None
    /\ NoHourCall /\ NoTimelineCall /\ NoDedupeCall
    /\ NoStoreCall
    /\ error = "none" /\ pc = "input"

InitDedupe ==
    /\ preferences = TestPrefs
    /\ flags \in SeqsUpTo(FlagChoices, MaxFlags)
    /\ limiters = <<>>
    /\ NoHourCall /\ NoTimelineCall /\ NoWindowCall
    /\ NoStoreCall
    /\ error = "none" /\ pc = "input"

----------------------------------------------------------------------------
(* Calls *)

\* assess_hour(preferences, hour_snapshot)
AssessHour ==
    /\ pc = "input"
    /\ ~IsNone(hour_snapshot)
    /\ IF HasValidTime(Val(hour_snapshot))
       THEN /\ assessment' = Some(assess_hour(preferences, Val(hour_snapshot)))
            /\ error' = "none"
       ELSE /\ assessment' = None
            /\ error' = "ValueError"
    /\ pc' = "assess_hour"
    /\ UNCHANGED store_vars
    /\ UNCHANGED <<preferences, hour_snapshot, conditions, policies, current_assessment,
                   hourly_assessments, hourly, durations_minutes, recs, window_decision,
                   summary, flags, limiters>>

\* assess_timeline(preferences, conditions, policies=policies)
AssessTimeline ==
    /\ pc = "input"
    /\ LET out == assess_timeline(preferences, conditions, policies) IN
       /\ current_assessment' = out.current
       /\ hourly_assessments' = out.hourly
       /\ error' = out.error
    /\ pc' = "assess_timeline"
    /\ UNCHANGED store_vars
    /\ UNCHANGED <<preferences, hour_snapshot, assessment, conditions, policies, hourly,
                   durations_minutes, recs, window_decision, summary, flags, limiters>>

\* compute_window_recommendations(hourly, durations_minutes=durations_minutes)
ComputeWindowRecommendations ==
    /\ pc = "input"
    /\ LET out == compute_window_recommendations(hourly, durations_minutes) IN
       /\ recs' = out.recs
       /\ error' = out.error
    /\ pc' = "windows"
    /\ UNCHANGED store_vars
    /\ UNCHANGED <<preferences, hour_snapshot, assessment, conditions, policies,
                   current_assessment, hourly_assessments, hourly, durations_minutes,
                   window_decision, summary, flags, limiters>>

\* _aggregate_decision(hourly)
AggregateDecision ==
    /\ IsNone(window_decision)
    /\ window_decision' = Some(_aggregate_decision(hourly))
    /\ pc' = "aggregate"
    /\ UNCHANGED store_vars
    /\ UNCHANGED <<preferences, hour_snapshot, assessment, conditions, policies,
                   current_assessment, hourly_assessments, hourly, durations_minutes,
                   recs, summary, flags, limiters, error>>

\* build_summary(hourly, recs), on the list compute_window_recommendations returned
BuildSummary ==
    /\ pc = "windows"
    /\ error = "none"
    /\ summary' = Some(build_summary(hourly, recs))
    /\ pc' = "summary"
    /\ UNCHANGED store_vars
    /\ UNCHANGED <<preferences, hour_snapshot, assessment, conditions, policies,
                   current_assessment, hourly_assessments, hourly, durations_minutes,
                   recs, window_decision, flags, limiters, error>>

\* _dedupe_limit_flags(flags), max_flags at its default 3
DedupeLimitFlags ==
    /\ pc = "input"
    /\ limiters' = _dedupe_limit_flags(flags, 3)
    /\ pc' = "dedupe"
    /\ UNCHANGED store_vars
    /\ UNCHANGED <<preferences, hour_snapshot, assessment, conditions, policies,
                   current_assessment, hourly_assessments, hourly, durations_minutes,
                   recs, window_decision, summary, flags, error>>

----------------------------------------------------------------------------
(* Specifications *)

NextHour == AssessHour

SpecHour == InitHour /\ [][NextHour]_vars

NextTimeline == AssessTimeline

SpecTimeline == InitTimeline /\ [][NextTimeline]_vars

NextWindows == ComputeWindowRecommendations

SpecWindows == InitWindows /\ [][NextWindows]_vars

NextSummary == ComputeWindowRecommendations \/ AggregateDecision \/ BuildSummary

SpecSummary == InitSummary /\ [][NextSummary]_vars

NextDedupe == DedupeLimitFlags

SpecDedupe == InitDedupe /\ [][NextDedupe]_vars

----------------------------------------------------------------------------
(* Two hours that differ in one reading: a current snapshot and one forecast *)
(* hour, each with a single measure read and the other readings None.       *)

\* The numeric snapshot fields and, for each, readings on both sides of every
\* threshold of its judge under each of PrefChoices.
NumericFields ==
    {"temperature", "wind_speed", "wind_gusts", "us_aqi", "precipitation_prob"}

FieldReadings(f) ==
    IF f = "temperature" THEN
        {20, 25, 26, 31, 32, 33, 39, 40, 44, 45, 49, 50, 54, 55, 59, 60, 64, 65,
         70, 75, 76, 85, 86, 93, 94, 98, 99, 108, 109, 112}
    ELSE IF f = "wind_speed" THEN 0..35
    ELSE IF f = "wind_gusts" THEN 0..45
    ELSE IF f = "us_aqi" THEN {0, 30, 50, 51, 79, 80, 81, 99, 100, 101, 150, 151, 160}
    ELSE {0, 10, 19, 20, 30, 49, 50, 69, 70, 79, 80, 100}

\* A snapshot at time tm whose only reading is field f = v; is_day is None.
OneReading(tm, f, v) ==
    [Snapshot(Some(tm), None, None, None, None, None, None, None) EXCEPT ![f] = Some(v)]

PairConditions ==
    {[current |-> Some(OneReading(0, f, a)), forecast |-> <<Some(OneReading(3600, f, b))>>] :
        <<f, a, b>> \in UNION {{f} \X FieldReadings(f) \X FieldReadings(f) :
                                  f \in NumericFields}}

InitPair ==
    /\ preferences \in PrefChoices
    /\ conditions \in PairConditions
    /\ policies = None
    /\ current_assessment = None
    /\ hourly_assessments = <<>>
    /\ NoHourCall /\ NoWindowCall /\ NoDedupeCall
    /\ NoStoreCall
    /\ error = "none" /\ pc = "input"

NextPair == AssessTimeline

SpecPair == InitPair /\ [][NextPair]_vars

----------------------------------------------------------------------------
(* Forecasts in any order, with null entries, equal times, missing hour     *)
(* indices and missing times; the current snapshot is also handed to         *)
(* assess_hour on its own.                                                   *)

\* Longest forecast of the ordering runs.
MaxOrder == 3

\* Snapshots that differ in time (None: no datetime) and hour_index only.
OrderSnapshots(times) ==
    {Snapshot(tm, idx, Some(70), Some(10), None, Some(30), Some(10), Some(TRUE)) :
        tm \in times, idx \in Optional({0, 1})}

InitOrder ==
    /\ preferences = TestPrefs
    /\ conditions \in
          [current : Optional(OrderSnapshots(Optional({0}))),
           forecast : SeqsUpTo(Optional(OrderSnapshots(Optional({3600, 7200}))), MaxOrder)]
    /\ hour_snapshot = conditions.current
    /\ assessment = None
    /\ policies = None
    /\ current_assessment = None
    /\ hourly_assessments = <<>>
    /\ NoWindowCall /\ NoDedupeCall
    /\ NoStoreCall
    /\ error = "none" /\ pc = "input"

NextOrder == AssessHour \/ AssessTimeline

SpecOrder == InitOrder /\ [][NextOrder]_vars

----------------------------------------------------------------------------
(* Summaries of hours with different scores *)

\* Hours one hour apart, all go and without risks, with any of these scores.
ScoredHours ==
    {[i \in DOMAIN c |-> HourAssessment(3600 * i, "go", <<>>, c[i])] :
        c \in SeqsUpTo(Optional({2000, 9000, 9500}), MaxHours)}

InitScore ==
    /\ preferences = TestPrefs
    /\ hourly \in ScoredHours
    /\ durations_minutes = <<45, 60, 90, 120>>
    /\ recs = <<>> /\ window_decision = None /\ summary = None
    /\ NoHourCall /\ NoTimelineCall /\ NoDedupeCall
    /\ NoStoreCall
    /\ error = "none" /\ pc = "input"

NextScore == ComputeWindowRecommendations \/ BuildSummary

SpecScore == InitScore /\ [][NextScore]_vars

----------------------------------------------------------------------------
(* build_assessment_payload (src/app/agent.py): the timeline, the windows    *)
(* over its forecast hours, and the summary of both                          *)

\* Forecasts whose i-th entry, if not null, is the hour i hours after the
\* current one: calm, windy over the limit (caution) or far over it (avoid),
\* by day or in darkness (caution), everything else ideal.
PayloadForecasts ==
    {[i \in DOMAIN c |->
         IF c[i] = None THEN None
         ELSE Some(Snapshot(Some(3600 * i), Some(i), Some(70), Some(c[i][1].wind), None,
                            Some(30), Some(10), Some(c[i][1].is_day)))] :
        c \in SeqsUpTo(Optional([wind : {10, 26, 31}, is_day : BOOLEAN]), MaxForecast)}

InitPayload ==
    /\ preferences = TestPrefs
    /\ conditions \in
          [current : Optional({Snapshot(Some(0), Some(0), Some(70), Some(w), None, Some(30),
                                        Some(10), Some(TRUE)) : w \in {10, 31}}),
           forecast : PayloadForecasts]
    /\ policies = None
    /\ current_assessment = None
    /\ hourly_assessments = <<>>
    /\ NoHourCall /\ NoWindowCall /\ NoDedupeCall
    /\ NoStoreCall
    /\ error = "none" /\ pc = "input"

\* build_assessment_payload(conditions, prefs): assess_timeline with the
\* default policies, compute_window_recommendations with the default
\* durations on the forecast hours, build_summary on both.
BuildAssessmentPayload ==
    /\ pc = "input"
    /\ \E timeline \in {assess_timeline(preferences, conditions, None)} :
       \E windows \in {compute_window_recommendations(timeline.hourly,
                                                       <<45, 60, 90, 120>>)} :
       IF timeline.error # "none" \/ windows.error # "none"
       THEN /\ error' = (IF timeline.error # "none" THEN timeline.error ELSE windows.error)
            /\ UNCHANGED <<current_assessment, hourly_assessments, hourly,
                           durations_minutes, recs, summary>>
       ELSE /\ error' = "none"
            /\ current_assessment' = timeline.current
            /\ hourly_assessments' = timeline.hourly
            /\ hourly' = timeline.hourly
            /\ durations_minutes' = <<45, 60, 90, 120>>
            /\ recs' = windows.recs
            /\ summary' = Some(build_summary(timeline.hourly, windows.recs))
    /\ pc' = "payload"
    /\ UNCHANGED store_vars
    /\ UNCHANGED <<preferences, hour_snapshot, assessment, conditions, policies,
                   window_decision, flags, limiters>>

NextPayload == BuildAssessmentPayload

SpecPayload == InitPayload /\ [][NextPayload]_vars

----------------------------------------------------------------------------
(* Session stores (src/app/session_store/memory.py, redis.py)                *)
(*                                                                           *)
(* Time is in whole seconds, and a call reads the clock once: the calls are  *)
(* short against a second.  A session id is the number of the id             *)
(* _generate_id handed out (uuid4 values do not repeat).  A dictionary is a  *)
(* function on the keys it holds.  The Redis server is the keyspace of the   *)
(* store's client: each key holds a value and the time it expires at; the    *)
(* server is assumed reachable.                                              *)

MaxClock == 4

MaxSessions == 1

SessionIds == 1..(MaxSessions + 1)

EmptyDict == [k \in {} |-> k]

DictPut(d, key, value) ==
    [k \in DOMAIN d \cup {key} |-> IF k = key THEN value ELSE d[k]]

DictPop(d, key) == [k \in DOMAIN d \ {key} |-> d[k]]

Min(a, b) == IF a <= b THEN a ELSE b

Max(a, b) == IF a >= b THEN a ELSE b

\* SessionPayload: the tuple (messages, preferences, conditions, assessment).
SessionPayload(messages, prefs, conds, assess) ==
    [messages |-> messages, preferences |-> prefs, conditions |-> conds,
     assessment |-> assess]

\* UserPreferences(): the defaults of the model's fields.
DefaultUserPreferences ==
    RiderPreferences(Some(<<65, 93>>), Some(TRUE), Some(25), Some(TRUE), Some(80), Some(TRUE))

CachedConditions(data, fetched_at) == [data |-> data, fetched_at |-> fetched_at]

CachedAssessment(data, generated_at) == [data |-> data, generated_at |-> generated_at]

\* InMemorySessionStore._expired
_expired(self, exp, created_at, now) ==
    IF exp < now THEN TRUE
    ELSE IF IsNone(self.max_age) THEN FALSE
    ELSE now - created_at > Val(self.max_age)

\* An expiry counted from the creation of the session instead of the call.
NextExpiryFromCreation(self, created_at, now) ==
    IF IsNone(self.max_age) THEN created_at + self.ttl
    ELSE Min(created_at + self.ttl, created_at + Val(self.max_age))

\* InMemorySessionStore._next_expiry
_next_expiry(self, created_at, now) ==
    LET next_exp == now + self.ttl IN
    IF IsNone(self.max_age) THEN next_exp
    ELSE Min(next_exp, created_at + Val(self.max_age))

\* InMemorySessionStore.create_session: the store's dictionary afterwards.
InMemory_create_session(self, sid, messages, prefs, conds, assess, now) ==
    DictPut(self.sessions, sid,
            [messages |-> messages,
             preferences |-> IF IsNone(prefs) THEN DefaultUserPreferences ELSE Val(prefs),
             conditions |-> conds,
             assessment |-> assess,
             created_at |-> now,
             exp |-> _next_expiry(self, now, now)])

\* InMemorySessionStore.get_session: the dictionary afterwards and the value
\* returned.
InMemory_get_session(self, session_id, now) ==
    IF session_id \notin DOMAIN self.sessions
    THEN [sessions |-> self.sessions, value |-> None]
    ELSE LET data == self.sessions[session_id] IN
         IF _expired(self, data.exp, data.created_at, now)
         THEN [sessions |-> DictPop(self.sessions, session_id), value |-> None]
         ELSE [sessions |-> [self.sessions EXCEPT
                                ![session_id].exp = _next_expiry(self, data.created_at, now)],
               value |-> Some(SessionPayload(data.messages, data.preferences,
                                             data.conditions, data.assessment))]

\* An update that stores the conditions and the assessment passed even when
\* they are None.
InMemoryUpdateStoringNone(self, session_id, messages, prefs, conds, assess, now) ==
    IF session_id \notin DOMAIN self.sessions
    THEN self.sessions
    ELSE LET data == self.sessions[session_id] IN
         IF _expired(self, data.exp, data.created_at, now)
         THEN DictPop(self.sessions, session_id)
         ELSE [self.sessions EXCEPT ![session_id] =
                  [messages |-> IF IsNone(messages) THEN data.messages ELSE Val(messages),
                   preferences |-> IF IsNone(prefs) THEN data.preferences ELSE Val(prefs),
                   conditions |-> conds,
                   assessment |-> assess,
                   created_at |-> data.created_at,
                   exp |-> _next_expiry(self, data.created_at, now)]]

\* InMemorySessionStore.update_session: the dictionary afterwards.  An
\* argument of None is an argument that was not passed.
InMemory_update_session(self, session_id, messages, prefs, conds, assess, now) ==
    IF session_id \notin DOMAIN self.sessions
    THEN self.sessions
    ELSE LET data == self.sessions[session_id] IN
         IF _expired(self, data.exp, data.created_at, now)
         THEN DictPop(self.sessions, session_id)
         ELSE [self.sessions EXCEPT ![session_id] =
                  [messages |-> IF IsNone(messages) THEN data.messages ELSE Val(messages),
                   preferences |-> IF IsNone(prefs) THEN data.preferences ELSE Val(prefs),
                   conditions |-> IF IsNone(conds) THEN data.conditions ELSE conds,
                   assessment |-> IF IsNone(assess) THEN data.assessment ELSE assess,
                   created_at |-> data.created_at,
                   exp |-> _next_expiry(self, data.created_at, now)]]

\* RedisSessionStore._serialize_bike_conditions and _serialize_conditions:
\* the JSON object of cached conditions.
_serialize_conditions(conds) ==
    IF IsNone(conds) THEN None
    ELSE Some([fetched_at |-> Val(conds).fetched_at,
               data |-> [current |-> Val(conds).data.current,
                         forecast |-> Val(conds).data.forecast]])

\* RedisSessionStore._deserialize_bike_conditions and
\* _deserialize_conditions: null entries of the forecast are left out.
_deserialize_conditions(data) ==
    IF IsNone(data) THEN None
    ELSE Some(CachedConditions(
                 [current |-> Val(data).data.current,
                  forecast |-> SelectSeq(Val(data).data.forecast, LAMBDA item : ~IsNone(item))],
                 Val(data).fetched_at))

\* RedisSessionStore._serialize_assessment
_serialize_assessment(assess) ==
    IF IsNone(assess) THEN None
    ELSE Some([generated_at |-> Val(assess).generated_at, data |-> Val(assess).data])

\* RedisSessionStore._deserialize_assessment
_deserialize_assessment(data) ==
    IF IsNone(data) THEN None
    ELSE Some(CachedAssessment(Val(data).data, Val(data).generated_at))

\* RedisSessionStore._safe_dump
_safe_dump(payload, created_at) ==
    [messages |-> payload.messages,
     preferences |-> payload.preferences,
     conditions |-> _serialize_conditions(payload.conditions),
     assessment |-> _serialize_assessment(payload.assessment),
     created_at |-> created_at]

\* RedisSessionStore._safe_load: the payload and created_at; a created_at
\* of 0 reads as the current time.
_safe_load(raw, now) ==
    [payload |-> SessionPayload(raw.messages, raw.preferences,
                                _deserialize_conditions(raw.conditions),
                                _deserialize_assessment(raw.assessment)),
     created_at |-> IF raw.created_at = 0 THEN now ELSE raw.created_at]

\* RedisSessionStore._is_expired
_is_expired(self, created_at, now) ==
    IF IsNone(self.max_age) THEN FALSE
    ELSE (now - created_at) > Val(self.max_age)

\* The ttl of a refresh without the cap of the max age.
TtlRemainingUncapped(self, created_at, now) == self.ttl

\* RedisSessionStore._ttl_remaining
_ttl_remaining(self, created_at, now) ==
    IF IsNone(self.max_age) THEN self.ttl
    ELSE LET remaining == Max(0, (created_at + Val(self.max_age)) - now)
         IN Min(self.ttl, remaining)

\* The Redis commands the store issues: GET returns nothing for a key that
\* is absent or has reached its expiry time.
RedisGet(client, key, now) ==
    IF key \in DOMAIN client /\ now < client[key].expire_at
    THEN Some(client[key].value)
    ELSE None

RedisSetex(client, key, ttl, value, now) ==
    DictPut(client, key, [value |-> value, expire_at |-> now + ttl])

RedisExpire(client, key, ttl, now) ==
    IF key \in DOMAIN client /\ now < client[key].expire_at
    THEN [client EXCEPT ![key].expire_at = now + ttl]
    ELSE client

RedisDelete(client, key) == DictPop(client, key)

\* RedisSessionStore.create_session: the keyspace afterwards, and whether
\* the call raised RuntimeError.
Redis_create_session(self, sid, messages, prefs, conds, assess, now) ==
    LET payload == _safe_dump(SessionPayload(messages,
                                  IF IsNone(prefs) THEN DefaultUserPreferences ELSE Val(prefs),
                                  conds, assess), now)
        ttl == _ttl_remaining(self, now, now)
    IN IF ttl <= 0
       THEN [sessions |-> self.sessions, raised |-> TRUE]
       ELSE [sessions |-> RedisSetex(self.sessions, sid, ttl, payload, now),
             raised |-> FALSE]

\* RedisSessionStore.get_session
Redis_get_session(self, session_id, now) ==
    LET raw == RedisGet(self.sessions, session_id, now) IN
    IF IsNone(raw) THEN [sessions |-> self.sessions, value |-> None]
    ELSE LET loaded == _safe_load(Val(raw), now) IN
         IF _is_expired(self, loaded.created_at, now)
         THEN [sessions |-> RedisDelete(self.sessions, session_id), value |-> None]
         ELSE LET ttl == _ttl_remaining(self, loaded.created_at, now) IN
              [sessions |-> IF ttl > 0 THEN RedisExpire(self.sessions, session_id, ttl, now)
                            ELSE self.sessions,
               value |-> Some(loaded.payload)]

\* RedisSessionStore.update_session, lines 241-250: the payload written back.
MergedPayload(payload, messages, prefs, conds, assess) ==
    SessionPayload(IF IsNone(messages) THEN payload.messages ELSE Val(messages),
                   IF IsNone(prefs) THEN payload.preferences ELSE Val(prefs),
                   IF IsNone(conds) THEN payload.conditions ELSE conds,
                   IF IsNone(assess) THEN payload.assessment ELSE assess)

\* RedisSessionStore.update_session, lines 237-258: from the value read to
\* the keyspace afterwards.
Redis_write_back(client, self, session_id, raw, messages, prefs, conds, assess, now) ==
    LET loaded == _safe_load(raw, now) IN
    IF _is_expired(self, loaded.created_at, now)
    THEN RedisDelete(client, session_id)
    ELSE LET serialized == _safe_dump(MergedPayload(loaded.payload, messages, prefs,
                                                    conds, assess),
                                      loaded.created_at)
             ttl == _ttl_remaining(self, loaded.created_at, now)
         IN IF ttl <= 0 THEN RedisDelete(client, session_id)
            ELSE RedisSetex(client, session_id, ttl, serialized, now)

\* RedisSessionStore.update_session run by one caller alone.
Redis_update_session(self, session_id, messages, prefs, conds, assess, now) ==
    LET raw == RedisGet(self.sessions, session_id, now) IN
    IF IsNone(raw) THEN self.sessions
    ELSE Redis_write_back(self.sessions, self, session_id, Val(raw), messages, prefs,
                          conds, assess, now)

----------------------------------------------------------------------------
(* Calls on a session store *)

TtlChoices == {1, 2}

MaxAgeChoices == {None, Some(2)}

\* The messages a session is created with, and those of an update.
CreatedMessages == <<>>

UpdatedMessages == <<"hi">>

\* The preferences of an update: not the defaults.
UpdatedPreferences ==
    RiderPreferences(Some(<<50, 70>>), Some(FALSE), Some(20), Some(FALSE), Some(100),
                     Some(FALSE))

\* Cached conditions: a current hour and a forecast of one hour.
StoreConditions ==
    {CachedConditions(
        [current |-> Some(Snapshot(Some(0), Some(0), Some(70), Some(10), None, Some(30),
                                   Some(10), Some(TRUE))),
         forecast |-> <<Some(Snapshot(Some(3600), Some(1), Some(70), Some(10), None, Some(30),
                                      Some(10), Some(TRUE)))>>],
        0)}

\* A cached assessment: AgentAssessmentPayload(context, preferences) with
\* the defaults of its other fields.
StoreAssessments ==
    {CachedAssessment([preferences |-> DefaultUserPreferences, current |-> None,
                       hourly |-> <<>>, summary |-> None], 0)}

\* The record of a call on the store: the session id passed (for
\* create_session the id returned), the time it ran at, the payload
\* get_session returned, and whether the call left the session stored.
StoreCall(op, session_id, now, value, stored) ==
    [op |-> op, session_id |-> session_id, now |-> now, value |-> value,
     stored |-> stored]

InitStoreOf(kinds, max_ages) ==
    /\ preferences = TestPrefs
    /\ NoHourCall /\ NoTimelineCall /\ NoWindowCall /\ NoDedupeCall
    /\ error = "none" /\ pc = "input"
    /\ clock = 1
    /\ store \in [kind : kinds, ttl : TtlChoices, max_age : max_ages,
                  sessions : {EmptyDict}]
    /\ generated = 0
    /\ returned = None
    /\ history = [created |-> EmptyDict, touched |-> EmptyDict, expired |-> {}]
    /\ updaters = EmptyDict
    /\ request = None

InitStore == InitStoreOf({"memory", "redis"}, MaxAgeChoices)

\* create_session(messages, preferences, conditions, assessment)
CreateSession ==
    /\ generated < MaxSessions
    /\ \E messages \in {CreatedMessages}, prefs \in Optional({DefaultUserPreferences}),
          conds \in Optional(StoreConditions), assess \in {None} :
          LET sid == generated + 1
              res == IF store.kind = "memory"
                     THEN [sessions |-> InMemory_create_session(store, sid, messages, prefs,
                                                                conds, assess, clock),
                           raised |-> FALSE]
                     ELSE Redis_create_session(store, sid, messages, prefs, conds, assess,
                                               clock)
          IN /\ store' = [store EXCEPT !.sessions = res.sessions]
             /\ generated' = sid
             /\ returned' = Some(StoreCall("create_session", sid, clock, None,
                                           ~res.raised))
             /\ history' = IF res.raised THEN history
                           ELSE [history EXCEPT !.created = DictPut(@, sid, clock),
                                                !.touched = DictPut(@, sid, clock)]
    /\ UNCHANGED <<clock, updaters, request>>
    /\ UNCHANGED engine_vars

\* get_session(session_id)
GetSession ==
    /\ \E session_id \in SessionIds :
          LET res == IF store.kind = "memory"
                     THEN InMemory_get_session(store, session_id, clock)
                     ELSE Redis_get_session(store, session_id, clock)
          IN /\ store' = [store EXCEPT !.sessions = res.sessions]
             /\ returned' = Some(StoreCall("get_session", session_id, clock, res.value,
                                           ~IsNone(res.value)))
             /\ history' =
                  IF ~IsNone(res.value)
                  THEN [history EXCEPT !.touched = DictPut(@, session_id, clock)]
                  ELSE IF session_id \in DOMAIN store.sessions
                       THEN [history EXCEPT !.expired = @ \cup {session_id}]
                       ELSE history
    /\ UNCHANGED <<clock, generated, updaters, request>>
    /\ UNCHANGED engine_vars

\* update_session(session_id, messages, preferences, conditions, assessment)
UpdateSessionWith(session_id, messages, prefs, conds, assess) ==
    /\    LET after == IF store.kind = "memory"
                       THEN InMemory_update_session(store, session_id, messages, prefs,
                                                    conds, assess, clock)
                       ELSE Redis_update_session(store, session_id, messages, prefs,
                                                 conds, assess, clock)
              stored == session_id \in DOMAIN after
          IN /\ store' = [store EXCEPT !.sessions = after]
             /\ returned' = Some(StoreCall("update_session", session_id, clock, None,
                                           stored))
             /\ history' =
                  IF stored
                  THEN [history EXCEPT !.touched = DictPut(@, session_id, clock)]
                  ELSE IF session_id \in DOMAIN store.sessions
                       THEN [history EXCEPT !.expired = @ \cup {session_id}]
                       ELSE history
    /\ UNCHANGED <<clock, generated, updaters, request>>
    /\ UNCHANGED engine_vars

UpdateSession ==
    \E session_id \in SessionIds, messages \in Optional({UpdatedMessages}),
       prefs \in Optional({UpdatedPreferences}), conds \in Optional(StoreConditions),
       assess \in Optional(StoreAssessments) :
       UpdateSessionWith(session_id, messages, prefs, conds, assess)

\* delete_session(session_id)
DeleteSession ==
    /\ \E session_id \in SessionIds :
          /\ store' = [store EXCEPT !.sessions = DictPop(@, session_id)]
          /\ returned' = Some(StoreCall("delete_session", session_id, clock, None, FALSE))
          /\ history' = [history EXCEPT !.touched = DictPop(@, session_id)]
    /\ UNCHANGED <<clock, generated, updaters, request>>
    /\ UNCHANGED engine_vars

\* clear()
ClearSessions ==
    /\ store' = [store EXCEPT !.sessions = EmptyDict]
    /\ returned' = Some(StoreCall("clear", 0, clock, None, FALSE))
    /\ history' = [history EXCEPT !.touched = EmptyDict]
    /\ UNCHANGED <<clock, generated, updaters, request>>
    /\ UNCHANGED engine_vars

\* A second passes; the Redis server drops the keys that reach their expiry.
Tick ==
    /\ clock < MaxClock
    /\ clock' = clock + 1
    /\ store' = IF store.kind = "redis"
                THEN [store EXCEPT !.sessions =
                         [k \in {j \in DOMAIN @ : clock + 1 < @[j].expire_at} |-> @[k]]]
                ELSE store
    /\ UNCHANGED <<generated, returned, history, updaters, request>>
    /\ UNCHANGED engine_vars

NextStore ==
    CreateSession \/ GetSession \/ UpdateSession \/ DeleteSession \/ ClearSessions \/ Tick

SpecStore == InitStore /\ [][NextStore]_vars

----------------------------------------------------------------------------
(* Two callers of RedisSessionStore.update_session on one session.  The     *)
(* method holds no lock and issues its GET and its SETEX or DELETE as        *)
(* separate commands, so the commands of two callers interleave.             *)

Callers == {1, 2}

\* The arguments of an update: any of the four fields, at least one.
UpdateArguments ==
    {a \in [messages : Optional({UpdatedMessages}),
            preferences : Optional({UpdatedPreferences}),
            conditions : Optional(StoreConditions),
            assessment : Optional(StoreAssessments)] :
        ~(IsNone(a.messages) /\ IsNone(a.preferences) /\ IsNone(a.conditions)
            /\ IsNone(a.assessment))}

\* The fields an update passes.
FieldsPassed(a) ==
    {f \in {"messages", "preferences", "conditions", "assessment"} : ~IsNone(a[f])}

\* One session created by create_session, and two update_session calls on
\* it that pass different fields, neither started.
InitConcurrent ==
    /\ preferences = TestPrefs
    /\ NoHourCall /\ NoTimelineCall /\ NoWindowCall /\ NoDedupeCall
    /\ error = "none" /\ pc = "input"
    /\ clock = 1
    /\ \E ttl \in TtlChoices, max_age \in MaxAgeChoices :
          LET self == [kind |-> "redis", ttl |-> ttl, max_age |-> max_age,
                       sessions |-> EmptyDict]
          IN store = [self EXCEPT !.sessions =
                         Redis_create_session(self, 1, CreatedMessages, None, None, None,
                                              1).sessions]
    /\ generated = 1
    /\ returned = Some(StoreCall("create_session", 1, 1, None, TRUE))
    /\ history = [created |-> DictPut(EmptyDict, 1, 1), touched |-> DictPut(EmptyDict, 1, 1),
                  expired |-> {}]
    /\ updaters \in {u \in [Callers -> [pc : {"call"}, session_id : {1},
                                        args : UpdateArguments, raw : {None},
                                        wrote : {FALSE}]] :
                        FieldsPassed(u[1].args) \cap FieldsPassed(u[2].args) = {}}
    /\ request = None

\* update_session, lines 226-233: the caller reads the key; a missing key
\* ends the call.
UpdateRead(caller) ==
    /\ updaters[caller].pc = "call"
    /\ LET raw == RedisGet(store.sessions, updaters[caller].session_id, clock) IN
       updaters' = [updaters EXCEPT ![caller].raw = raw,
                                    ![caller].pc = IF IsNone(raw) THEN "done" ELSE "write"]
    /\ UNCHANGED <<clock, store, generated, returned, history, request>>
    /\ UNCHANGED engine_vars

\* update_session, lines 234-258: the caller merges its arguments into the
\* payload it read and writes the result, or deletes the key.
UpdateWrite(caller) ==
    /\ updaters[caller].pc = "write"
    /\ LET u == updaters[caller]
           after == Redis_write_back(store.sessions, store, u.session_id, Val(u.raw),
                                     u.args.messages, u.args.preferences,
                                     u.args.conditions, u.args.assessment, clock)
       IN /\ store' = [store EXCEPT !.sessions = after]
          /\ updaters' = [updaters EXCEPT ![caller].pc = "done",
                                          ![caller].wrote = u.session_id \in DOMAIN after]
          /\ returned' = Some(StoreCall("update_session", u.session_id, clock, None,
                                        u.session_id \in DOMAIN after))
    /\ UNCHANGED <<clock, generated, history, request>>
    /\ UNCHANGED engine_vars

NextConcurrent ==
    \/ \E caller \in Callers : UpdateRead(caller)
    \/ \E caller \in Callers : UpdateWrite(caller)
    \/ Tick

SpecConcurrent == InitConcurrent /\ [][NextConcurrent]_vars

----------------------------------------------------------------------------
(* The session API (src/app/api.py) over the session manager                 *)
(* (src/app/session_manager.py).  Requests are handled one after another.    *)
(* A message list is the list of the roles of its messages.  The time zone   *)
(* of the preferences is taken to be valid.  The records of the store calls  *)
(* (returned, history) are not kept here: request is the record.             *)

conditions_ttl_seconds == 2

MaxMessages == 5

\* agent.build_assessment_payload as a value: the preferences the
\* assessment was computed from, the timeline and the summary.
AssessmentPayload(conds, prefs) ==
    CHOOSE payload \in
        {[preferences |-> prefs,
          current |-> timeline.current,
          hourly |-> timeline.hourly,
          summary |-> Some(build_summary(
                              timeline.hourly,
                              compute_window_recommendations(timeline.hourly,
                                                             <<45, 60, 90, 120>>).recs))] :
            timeline \in {assess_timeline(prefs, conds, None)}} : TRUE

\* narration.build_narration_messages: a system and a user message.
build_narration_messages == <<"system", "user">>

\* agent.narrate_assessment: the prior messages, or the narration messages
\* when there are none, with the user's message and the reply.
narrate_assessment(prior_messages) ==
    (IF prior_messages = <<>> THEN build_narration_messages ELSE prior_messages)
        \o <<"user", "assistant">>

\* session_manager._wrap_assessment of None or an AgentAssessmentPayload
_wrap_assessment(assess, now) ==
    IF IsNone(assess) THEN None ELSE Some(CachedAssessment(Val(assess), now))

\* session_manager._unwrap_assessment
_unwrap_assessment(assess) ==
    IF IsNone(assess) THEN None ELSE Some(Val(assess).data)

\* session_manager.create_session
create_session(self, sid, messages, prefs, conds, assess, now) ==
    IF self.kind = "memory"
    THEN InMemory_create_session(self, sid, messages, prefs, conds,
                                 _wrap_assessment(assess, now), now)
    ELSE Redis_create_session(self, sid, messages, prefs, conds,
                              _wrap_assessment(assess, now), now).sessions

\* session_manager.get_session
get_session(self, session_id, now) ==
    LET res == IF self.kind = "memory" THEN InMemory_get_session(self, session_id, now)
               ELSE Redis_get_session(self, session_id, now)
    IN [sessions |-> res.sessions,
        value |-> IF IsNone(res.value) THEN None
                  ELSE Some([Val(res.value) EXCEPT
                                !.assessment = _unwrap_assessment(@)])]

\* session_manager.update_session
update_session(self, session_id, messages, prefs, conds, assess, now) ==
    IF self.kind = "memory"
    THEN InMemory_update_session(self, session_id, messages, prefs, conds,
                                 _wrap_assessment(assess, now), now)
    ELSE Redis_update_session(self, session_id, messages, prefs, conds,
                              _wrap_assessment(assess, now), now)

\* api._conditions_are_fresh of None or CachedConditions
_conditions_are_fresh(value, now) ==
    IF IsNone(value) THEN FALSE
    ELSE now - Val(value).fetched_at < conditions_ttl_seconds

\* api._fetch_conditions: the cached conditions when allowed, else what the
\* data source returns.
_fetch_conditions(cached, require_fresh, fetched, now) ==
    IF ~IsNone(cached) /\ (~require_fresh \/ _conditions_are_fresh(cached, now))
    THEN Val(cached).data
    ELSE fetched

\* api._ensure_conditions_present: TRUE when it raises no 404.
_ensure_conditions_present(conds) ==
    ~IsNone(conds.current) /\ conds.forecast # <<>>

\* api._wrap_conditions
_wrap_conditions(conds, now) == CachedConditions(conds, now)

\* What the data source returns: a current hour and a forecast hour at 60
\* or at 80 degrees, or a current hour without forecast.
FetchedConditions ==
    {[current |-> Some(Snapshot(Some(0), Some(0), Some(t), Some(10), None, Some(30),
                                Some(10), Some(TRUE))),
      forecast |-> <<Some(Snapshot(Some(3600), Some(1), Some(t), Some(10), None, Some(30),
                                   Some(10), Some(TRUE)))>>] : t \in {60, 80}}
    \cup
    {[current |-> Some(Snapshot(Some(0), Some(0), Some(60), Some(10), None, Some(30),
                                Some(10), Some(TRUE))),
      forecast |-> <<>>]}

\* The record of a request: the handler, the session id, the status of the
\* response and its assessment.
ApiResponse(op, session_id, status, assess) ==
    [op |-> op, session_id |-> session_id, status |-> status, assessment |-> assess]

InitApi ==
    /\ preferences = TestPrefs
    /\ NoHourCall /\ NoTimelineCall /\ NoWindowCall /\ NoDedupeCall
    /\ error = "none" /\ pc = "input"
    /\ clock = 1
    /\ store \in [kind : {"memory", "redis"}, ttl : {2}, max_age : {None},
                  sessions : {EmptyDict}]
    /\ generated = 0
    /\ returned = None
    /\ history = [created |-> EmptyDict, touched |-> EmptyDict, expired |-> {}]
    /\ updaters = EmptyDict
    /\ request = None

\* POST /session/start
StartSession ==
    /\ generated < MaxSessions
    /\ \E fetched \in FetchedConditions :
          LET prefs == DefaultUserPreferences
              conds == _fetch_conditions(None, FALSE, fetched, clock)
              sid == generated + 1
          IN IF ~_ensure_conditions_present(conds)
             THEN /\ request' = Some(ApiResponse("start_session", 0, 404, None))
                  /\ UNCHANGED <<store, generated>>
             ELSE /\ store' = [store EXCEPT !.sessions =
                                  create_session(store, sid, <<>>, Some(prefs),
                                                 Some(_wrap_conditions(conds, clock)),
                                                 None, clock)]
                  /\ generated' = sid
                  /\ request' = Some(ApiResponse("start_session", sid, 200, None))
    /\ UNCHANGED <<clock, returned, history, updaters>>
    /\ UNCHANGED engine_vars

\* POST /session/{session_id}/initial
RunInitial ==
    /\ \E session_id \in SessionIds, fetched \in FetchedConditions :
          \E got \in {get_session(store, session_id, clock)} :
          LET self == [store EXCEPT !.sessions = got.sessions]
          IN IF IsNone(got.value)
             THEN /\ store' = self
                  /\ request' = Some(ApiResponse("run_initial", session_id, 404, None))
             ELSE LET session == Val(got.value)
                      prefs == session.preferences
                      conds == _fetch_conditions(session.conditions, TRUE, fetched, clock)
                  IN IF ~_ensure_conditions_present(conds)
                     THEN /\ store' = self
                          /\ request' = Some(ApiResponse("run_initial", session_id, 404,
                                                         None))
                     ELSE \E assessment_payload \in {AssessmentPayload(conds, prefs)} :
                          LET base_messages == build_narration_messages \o <<"assistant">>
                          IN /\ store' = [self EXCEPT !.sessions =
                                             update_session(self, session_id,
                                                 Some(base_messages), Some(prefs),
                                                 Some(_wrap_conditions(conds, clock)),
                                                 Some(assessment_payload), clock)]
                             /\ request' = Some(ApiResponse("run_initial", session_id, 200,
                                                            Some(assessment_payload)))
    /\ UNCHANGED <<clock, generated, returned, history, updaters>>
    /\ UNCHANGED engine_vars

\* POST /session/{session_id}/chat
ContinueChat ==
    /\ \E session_id \in SessionIds, fetched \in FetchedConditions, too_long \in BOOLEAN :
          \E got \in {get_session(store, session_id, clock)} :
          LET self == [store EXCEPT !.sessions = got.sessions]
          IN IF IsNone(got.value)
             THEN /\ store' = self
                  /\ request' = Some(ApiResponse("continue_chat", session_id, 404, None))
             ELSE IF too_long
             THEN /\ store' = self
                  /\ request' = Some(ApiResponse("continue_chat", session_id, 400, None))
             ELSE LET session == Val(got.value)
                      prefs == session.preferences
                      cached_is_fresh == _conditions_are_fresh(session.conditions, clock)
                      conds == _fetch_conditions(session.conditions, TRUE, fetched, clock)
                  IN /\ Len(session.messages) + 2 <= MaxMessages
                     /\ IF ~_ensure_conditions_present(conds)
                        THEN /\ store' = self
                             /\ request' = Some(ApiResponse("continue_chat", session_id,
                                                            404, None))
                        ELSE \E assess \in
                                    {IF IsNone(session.assessment) \/ ~cached_is_fresh
                                     THEN AssessmentPayload(conds, prefs)
                                     ELSE Val(session.assessment)} :
                             LET messages == narrate_assessment(session.messages)
                             IN /\ store' = [self EXCEPT !.sessions =
                                                update_session(self, session_id,
                                                    Some(messages), None,
                                                    IF cached_is_fresh THEN None
                                                    ELSE Some(_wrap_conditions(conds, clock)),
                                                    Some(assess), clock)]
                                /\ request' = Some(ApiResponse("continue_chat", session_id,
                                                               200, Some(assess)))
    /\ UNCHANGED <<clock, generated, returned, history, updaters>>
    /\ UNCHANGED engine_vars

\* GET /session/{session_id}/preferences
GetPreferences ==
    /\ \E session_id \in SessionIds :
          \E got \in {get_session(store, session_id, clock)} :
          /\ store' = [store EXCEPT !.sessions = got.sessions]
          /\ request' = Some(ApiResponse("get_preferences", session_id,
                                         IF IsNone(got.value) THEN 404 ELSE 200, None))
    /\ UNCHANGED <<clock, generated, returned, history, updaters>>
    /\ UNCHANGED engine_vars

\* POST /session/{session_id}/preferences
SetPreferences ==
    /\ \E session_id \in SessionIds, prefs \in {DefaultUserPreferences, UpdatedPreferences} :
          \E got \in {get_session(store, session_id, clock)} :
          LET self == [store EXCEPT !.sessions = got.sessions]
          IN IF IsNone(got.value)
             THEN /\ store' = self
                  /\ request' = Some(ApiResponse("set_preferences", session_id, 404, None))
             ELSE /\ store' = [self EXCEPT !.sessions =
                                  update_session(self, session_id,
                                                 Some(Val(got.value).messages), Some(prefs),
                                                 Val(got.value).conditions, None, clock)]
                  /\ request' = Some(ApiResponse("set_preferences", session_id, 200, None))
    /\ UNCHANGED <<clock, generated, returned, history, updaters>>
    /\ UNCHANGED engine_vars

\* POST /session/{session_id}/refresh
RefreshOutlook ==
    /\ \E session_id \in SessionIds, fetched \in FetchedConditions :
          \E got \in {get_session(store, session_id, clock)} :
          LET self == [store EXCEPT !.sessions = got.sessions]
          IN IF IsNone(got.value)
             THEN /\ store' = self
                  /\ request' = Some(ApiResponse("refresh_outlook", session_id, 404, None))
             ELSE LET session == Val(got.value)
                      conds == _fetch_conditions(None, FALSE, fetched, clock)
                  IN IF ~_ensure_conditions_present(conds)
                     THEN /\ store' = self
                          /\ request' = Some(ApiResponse("refresh_outlook", session_id, 404,
                                                         None))
                     ELSE \E assess \in {AssessmentPayload(conds, session.preferences)} :
                          /\ store' = [self EXCEPT !.sessions =
                                          update_session(self, session_id,
                                              Some(session.messages),
                                              Some(session.preferences),
                                              Some(_wrap_conditions(conds, clock)),
                                              Some(assess), clock)]
                          /\ request' = Some(ApiResponse("refresh_outlook", session_id, 200,
                                                         Some(assess)))
    /\ UNCHANGED <<clock, generated, returned, history, updaters>>
    /\ UNCHANGED engine_vars

NextApi ==
    \/ StartSession \/ RunInitial \/ ContinueChat \/ GetPreferences \/ SetPreferences
    \/ RefreshOutlook \/ Tick

SpecApi == InitApi /\ [][NextApi]_vars

Spec == SpecHour

----------------------------------------------------------------------------
(* Properties of compute_window_recommendations (SpecWindows) *)

\* The call returned (it did not raise).
WindowsReturned == pc = "windows" /\ error = "none"

\* hs is a run of neighbours of the time-ordered input.
IsRunOfInput(hs) ==
    LET sorted == HourlySorted(hourly) IN
    \E s \in 1..Len(sorted) :
        /\ s + Len(hs) - 1 <= Len(sorted)
        /\ hs = SubSeq(sorted, s, s + Len(hs) - 1)

\* C1: every recommendation returned covers a non-empty run of hours of the
\* input, beginning at its start and ending at its end, none of which has the
\* decision avoid, and every two neighbours of which are 3600 s apart give or
\* take 90 s; the recommendation's own decision is not avoid either.
C1_WindowsAvoidFreeAndContiguous ==
    WindowsReturned =>
        \A r \in 1..Len(recs) :
            LET hs == recs[r].hours IN
            /\ hs # <<>>
            /\ IsRunOfInput(hs)
            /\ recs[r].start = hs[1].time
            /\ recs[r].end = hs[Len(hs)].time
            /\ \A i \in 1..Len(hs) : hs[i].decision # "avoid"
            /\ \A i \in 1..(Len(hs) - 1) :
                  /\ hs[i + 1].time - hs[i].time >= 3600 - 90
                  /\ hs[i + 1].time - hs[i].time <= 3600 + 90
            /\ recs[r].decision # "avoid"

\* Three hours, one of them avoid and two 3690 s apart that a returned
\* two-hour window covers, while another pair of the input is a real gap.
C1_Witness ==
    /\ WindowsReturned
    /\ Len(hourly) = 3
    /\ \E i \in 1..3 : hourly[i].decision = "avoid"
    /\ \E i, j \in 1..3 : hourly[j].time - hourly[i].time = 7200
    /\ \E r \in 1..Len(recs) :
          /\ Len(recs[r].hours) = 2
          /\ recs[r].end - recs[r].start = 3690

\* The windows the loop may recommend: (s, n) for a duration needing n hours,
\* where the n hours from the s-th of the time-ordered input exist, are
\* neighbours in time and hold no avoid hour.
EligibleWindows ==
    LET sorted == HourlySorted(hourly) IN
    {w \in (1..Len(sorted)) \X {NeededHours(durations_minutes[d]) : d \in DOMAIN durations_minutes} :
        /\ w[2] >= 1
        /\ w[1] + w[2] - 1 <= Len(sorted)
        /\ \A i \in w[1]..(w[1] + w[2] - 1) : sorted[i].decision # "avoid"
        /\ \A i \in w[1]..(w[1] + w[2] - 2) :
              /\ sorted[i + 1].time - sorted[i].time >= 3510
              /\ sorted[i + 1].time - sorted[i].time <= 3690}

\* The sum of the scores of the n hours from the s-th, a missing score as 0.
RECURSIVE RunScoreSum(_, _, _)
RunScoreSum(sorted, s, n) ==
    IF n = 0 THEN 0
    ELSE (IF sorted[s].hour_score = None THEN 0 ELSE sorted[s].hour_score[1])
         + RunScoreSum(sorted, s + 1, n - 1)

\* C2: the returned list is ordered by window_score descending, equal scores
\* by start ascending; its first entry has the largest mean among all
\* eligible windows (and there is a first entry whenever one is eligible),
\* and holds no avoid hour.
C2_RankedByScoreThenStart ==
    WindowsReturned =>
        /\ \A i, j \in 1..Len(recs) :
              i < j =>
                 LET a == recs[i].window_score
                     b == recs[j].window_score
                 IN
                 /\ a.den > 0 /\ b.den > 0
                 /\ a.num * b.den >= b.num * a.den
                 /\ (a.num * b.den = b.num * a.den => recs[i].start <= recs[j].start)
        /\ (EligibleWindows # {} => recs # <<>>)
        /\ recs # <<>> =>
              /\ \A w \in EligibleWindows :
                    RunScoreSum(HourlySorted(hourly), w[1], w[2]) * recs[1].window_score.den
                        <= recs[1].window_score.num * w[2]
              /\ \A i \in 1..Len(recs[1].hours) : recs[1].hours[i].decision # "avoid"

\* A returned list with two different scores, and with two equal scores at
\* different starts, from an input that was not in time order.
C2_Witness ==
    /\ WindowsReturned
    /\ hourly # HourlySorted(hourly)
    /\ \E i, j \in 1..Len(recs) :
          /\ i < j
          /\ recs[i].window_score.num * recs[j].window_score.den
                > recs[j].window_score.num * recs[i].window_score.den
    /\ \E i, j \in 1..Len(recs) :
          /\ i < j
          /\ recs[i].window_score.num * recs[j].window_score.den
                = recs[j].window_score.num * recs[i].window_score.den
          /\ recs[i].start < recs[j].start

\* C3: the window_score of every recommendation returned is the sum of the
\* hour_score values of the hours it covers, a missing one counted as 0,
\* divided by the number of those hours.
C3_WindowScoreIsMean ==
    WindowsReturned =>
        \A r \in 1..Len(recs) :
            LET hs == recs[r].hours IN
            /\ IsRunOfInput(hs)
            /\ recs[r].window_score.den # 0
            /\ recs[r].window_score.num * Len(hs)
                  = RunScoreSum(hs, 1, Len(hs)) * recs[r].window_score.den

\* A returned two-hour window over one hour without a score and one with 9.0.
C3_Witness ==
    /\ WindowsReturned
    /\ \E r \in 1..Len(recs) :
          /\ Len(recs[r].hours) = 2
          /\ recs[r].hours[1].hour_score = None
          /\ recs[r].hours[2].hour_score = Some(9000)
          /\ recs[r].window_score = [num |-> 9000, den |-> 2]

----------------------------------------------------------------------------
(* Properties of assess_hour (SpecHour) *)

\* assess_hour returned an HourAssessment.
HourAssessed == pc = "assess_hour" /\ error = "none" /\ assessment # None

\* C4: the decision of the hour is avoid if any of the six judgments is
\* avoid; otherwise go_with_caution if any is caution; otherwise unknown if
\* every judgment is unknown; otherwise go.
C4_HourDecisionRule ==
    HourAssessed =>
        LET a == assessment[1]
            keys == DOMAIN a.judgments
            SomeIs(st) == \E k \in keys : a.judgments[k].status = st
        IN
        /\ keys = {JudgmentKeys[i] : i \in 1..6}
        /\ SomeIs("avoid") => a.decision = "avoid"
        /\ (~SomeIs("avoid") /\ SomeIs("caution")) => a.decision = "go_with_caution"
        /\ (~SomeIs("avoid") /\ ~SomeIs("caution")
               /\ \A k \in keys : a.judgments[k].status = "unknown")
              => a.decision = "unknown"
        /\ (~SomeIs("avoid") /\ ~SomeIs("caution")
               /\ \E k \in keys : a.judgments[k].status # "unknown")
              => a.decision = "go"

\* An hour whose judgments mix avoid, caution, acceptable and unknown.
C4_Witness ==
    /\ HourAssessed
    /\ assessment[1].decision = "avoid"
    /\ \A st \in {"avoid", "caution", "acceptable", "unknown"} :
          \E k \in DOMAIN assessment[1].judgments : assessment[1].judgments[k].status = st

\* The penalties _score_hour subtracts for a judgment map, in thousandths.
PenaltyTotal(judgments) ==
    LET Weight(st) == CASE st = "avoid" -> 4000 [] st = "caution" -> 2000
                        [] st = "acceptable" -> 1000 [] OTHER -> 0
        keys == <<"temperature_f", "wind_speed_mph", "wind_gusts_mph", "us_aqi",
                  "precipitation_prob_percent", "daylight">>
    IN Weight(judgments[keys[1]].status) + Weight(judgments[keys[2]].status)
       + Weight(judgments[keys[3]].status) + Weight(judgments[keys[4]].status)
       + Weight(judgments[keys[5]].status) + Weight(judgments[keys[6]].status)
       + _temperature_penalty(judgments["temperature_f"].distance_from_preference)

\* C6: the hour_score lies in [0, 10]; it is 10 when every judgment is ideal
\* and the temperature distance is zero; it is 0 whenever the penalties sum
\* to 10 or more (and 10 less the penalties otherwise).
C6_HourScoreRange ==
    HourAssessed =>
        LET a == assessment[1]
            score == a.hour_score[1]
            total == PenaltyTotal(a.judgments)
        IN
        /\ a.hour_score # None
        /\ score >= 0 /\ score <= 10000
        /\ ((\A k \in DOMAIN a.judgments : a.judgments[k].status = "ideal")
              /\ a.judgments["temperature_f"].distance_from_preference = Some(0))
             => score = 10000
        /\ total >= 10000 => score = 0
        /\ total < 10000 => score = 10000 - total

\* An hour whose penalties sum to more than 10 and whose score is 0.
C6_Witness ==
    /\ HourAssessed
    /\ PenaltyTotal(assessment[1].judgments) > 10000
    /\ assessment[1].hour_score = Some(0)

----------------------------------------------------------------------------
(* Properties of the aggregators and of build_summary (SpecSummary) *)

\* The decisions of the hours passed in.
HourDecisions == {hourly[i].decision : i \in 1..Len(hourly)}

\* The rule of the hour-level aggregator, applied to a set of decisions.
DecisionRule(ds) ==
    IF \E d \in ds : d = "avoid" THEN "avoid"
    ELSE IF \E d \in ds : d = "go_with_caution" THEN "go_with_caution"
    ELSE IF \A d \in ds : d = "unknown" THEN "unknown"
    ELSE "go"

\* C5: _aggregate_decision and build_summary's overall_decision both follow
\* the rule of the hour-level aggregator on the decisions of all the hours
\* they are given: avoid if any is avoid, else go_with_caution if any is,
\* else unknown if all are unknown or there are none, else go.
C5_AggregatorsFollowHourRule ==
    /\ window_decision # None => window_decision[1] = DecisionRule(HourDecisions)
    /\ summary # None => summary[1].overall_decision = DecisionRule(HourDecisions)

\* Both aggregators were applied to hours that mix unknown and go, and both
\* answered go.
C5_Witness ==
    /\ HourDecisions = {"unknown", "go"}
    /\ window_decision = Some("go")
    /\ summary # None
    /\ summary[1].overall_decision = "go"

\* The risks of the first n windows of ws, in order.
RECURSIVE RisksOfFirst(_, _)
RisksOfFirst(ws, n) ==
    IF n = 0 THEN <<>> ELSE RisksOfFirst(ws, n - 1) \o ws[n].risks

\* The risks of the first n hours of hs, in order.
RECURSIVE RisksOfHours(_, _)
RisksOfHours(hs, n) ==
    IF n = 0 THEN <<>> ELSE RisksOfHours(hs, n - 1) \o hs[n].risks

\* C10: when the ranked window list is not empty the primary limiters are
\* the deduplicated risks of its first three windows (none when these carry
\* no risk, whatever the hours carry); when it is empty they are the
\* deduplicated risks of all the hours.
C10_LimitersFromBestWindows ==
    summary # None =>
        LET top == IF Len(recs) < 3 THEN Len(recs) ELSE 3 IN
        /\ summary[1].best_windows = SubSeq(recs, 1, top)
        /\ recs # <<>> =>
              /\ summary[1].primary_limiters
                    = _dedupe_limit_flags(RisksOfFirst(recs, top), 3)
              /\ (\A w \in 1..top : recs[w].risks = <<>>)
                    => summary[1].primary_limiters = <<>>
        /\ recs = <<>> =>
              summary[1].primary_limiters
                  = _dedupe_limit_flags(RisksOfHours(hourly, Len(hourly)), 3)

\* More than three windows, the first three without a risk and a later one
\* with a risk: the summary has no limiter although an hour carries a risk.
C10_Witness ==
    /\ summary # None
    /\ Len(recs) > 3
    /\ \A w \in 1..3 : recs[w].risks = <<>>
    /\ \E w \in 4..Len(recs) : recs[w].risks # <<>>
    /\ \E i \in 1..Len(hourly) : hourly[i].risks # <<>>
    /\ summary[1].primary_limiters = <<>>

----------------------------------------------------------------------------
(* Properties of _dedupe_limit_flags (SpecDedupe) *)

SamePair(f, g) == f.code = g.code /\ f.severity = g.severity

\* The positions of the input that hold the first occurrence of their pair.
FirstOccurrences ==
    {i \in 1..Len(flags) : \A j \in 1..(i - 1) : ~SamePair(flags[j], flags[i])}

\* The k-th smallest member of a set of numbers.
KthOf(S, k) == CHOOSE i \in S : Cardinality({j \in S : j < i}) = k - 1

\* C9: the result holds at most 3 flags, no two with the same (code,
\* severity) pair, and they are the first occurrences of the first three
\* distinct pairs of the input, in input order.
C9_DedupeFirstThreePairs ==
    pc = "dedupe" =>
        /\ Len(limiters) <= 3
        /\ \A i, j \in 1..Len(limiters) : i # j => ~SamePair(limiters[i], limiters[j])
        /\ Len(limiters) = (IF Cardinality(FirstOccurrences) < 3
                            THEN Cardinality(FirstOccurrences) ELSE 3)
        /\ \A k \in 1..Len(limiters) : limiters[k] = flags[KthOf(FirstOccurrences, k)]

\* Five flags of four distinct pairs, the second a repetition of the first
\* with other evidence: three flags are returned, the fourth pair is cut.
C9_Witness ==
    /\ pc = "dedupe"
    /\ Len(flags) = 5
    /\ Cardinality(FirstOccurrences) = 4
    /\ SamePair(flags[1], flags[2]) /\ flags[1] # flags[2]
    /\ limiters = <<flags[1], flags[3], flags[4]>>

----------------------------------------------------------------------------
(* Properties of the trend pass of assess_timeline (SpecTimeline) *)

TimelineAssessed == pc = "assess_timeline" /\ error = "none"

\* The hour the i-th forecast hour is compared with: the one before it, and
\* for the first the current assessment (None when there is none).
Predecessor(i) ==
    IF i = 1 THEN current_assessment ELSE Some(hourly_assessments[i - 1])

NoTrend(j) == j.trend = None /\ j.trend_delta = None /\ j.trend_confidence = None

\* The trend the directionality table gives for a change of delta.
TableTrend(policy, delta) ==
    LET deadband == IF policy.trend_deadband = None THEN 0 ELSE policy.trend_deadband[1] IN
    IF delta <= deadband /\ -delta <= deadband THEN "stable"
    ELSE IF policy.directionality = "higher_is_better"
         THEN (IF delta > 0 THEN "improving" ELSE "worsening")
    ELSE (IF delta < 0 THEN "improving" ELSE "worsening")

\* C7: for a measure with a policy (higher_is_better, lower_is_better or
\* target_band) and distances in both hours, with delta the current distance
\* less the previous one: the trend is stable when |delta| <= deadband, else
\* improving or worsening by the sign of delta and the directionality;
\* trend_delta is delta and trend_confidence is 1.0.
C7_TrendFollowsPolicy ==
    TimelineAssessed =>
        \A i \in 1..Len(hourly_assessments) :
            Predecessor(i) # None =>
                \A k \in DOMAIN hourly_assessments[i].judgments :
                    LET j == hourly_assessments[i].judgments[k]
                        pj == Predecessor(i)[1].judgments[k]
                        policy == PolicyFor(PolicyMap(policies), k)
                    IN
                    (/\ policy # None
                     /\ policy[1].directionality
                           \in {"higher_is_better", "lower_is_better", "target_band"}
                     /\ j.distance_from_preference # None
                     /\ pj.distance_from_preference # None)
                    =>
                    LET delta == j.distance_from_preference[1]
                                    - pj.distance_from_preference[1]
                    IN
                    /\ j.trend = Some(TableTrend(policy[1], delta))
                    /\ j.trend_delta = Some(delta)
                    /\ j.trend_confidence = Some(1)

\* Under the default policies, a temperature distance that grew by exactly
\* the deadband (stable) beside a wind distance that changed by more
\* (not stable).
C7_Witness ==
    /\ TimelineAssessed
    /\ policies = None
    /\ \E i \in 1..Len(hourly_assessments) :
          LET js == hourly_assessments[i].judgments IN
          /\ js["temperature_f"].trend_delta = Some(1)
          /\ js["temperature_f"].trend = Some("stable")
          /\ js["wind_speed_mph"].trend \in {Some("improving"), Some("worsening")}

\* C8: the current assessment, and the first forecast hour when there is no
\* current snapshot, have no trend field set on any judgment; in a later
\* hour a judgment whose own distance or whose predecessor's distance is
\* null has no trend field set.
C8_NoTrendWithoutPredecessorOrDistance ==
    TimelineAssessed =>
        /\ current_assessment # None =>
              \A k \in DOMAIN current_assessment[1].judgments :
                  NoTrend(current_assessment[1].judgments[k])
        /\ \A i \in 1..Len(hourly_assessments) :
              \A k \in DOMAIN hourly_assessments[i].judgments :
                  LET j == hourly_assessments[i].judgments[k] IN
                  IF Predecessor(i) = None THEN NoTrend(j)
                  ELSE (\/ j.distance_from_preference = None
                        \/ Predecessor(i)[1].judgments[k].distance_from_preference = None)
                       => NoTrend(j)

\* No current snapshot and two forecast hours: the first has no trend at
\* all; the second has a wind trend, no temperature trend because the first
\* hour's temperature is missing, and no daylight trend.
C8_Witness ==
    /\ TimelineAssessed
    /\ current_assessment = None
    /\ Len(hourly_assessments) = 2
    /\ hourly_assessments[1].judgments["temperature_f"].distance_from_preference = None
    /\ hourly_assessments[2].judgments["temperature_f"].distance_from_preference # None
    /\ NoTrend(hourly_assessments[2].judgments["temperature_f"])
    /\ ~NoTrend(hourly_assessments[2].judgments["wind_speed_mph"])

----------------------------------------------------------------------------
(* Properties of the judges on two readings of one measure (SpecPair) *)

PairAssessed == pc = "assess_timeline" /\ error = "none" /\ conditions.current # None

\* ideal < acceptable < caution < avoid
Badness(status) ==
    IF status = "ideal" THEN 0
    ELSE IF status = "acceptable" THEN 1
    ELSE IF status = "caution" THEN 2
    ELSE 3

\* The judgment key of a snapshot field.
KeyOfField(f) ==
    IF f = "temperature" THEN "temperature_f"
    ELSE IF f = "wind_speed" THEN "wind_speed_mph"
    ELSE IF f = "wind_gusts" THEN "wind_gusts_mph"
    ELSE IF f = "us_aqi" THEN "us_aqi"
    ELSE "precipitation_prob_percent"

\* Reading b of field f deviates further than reading a, in the same
\* direction: further below the band or further above it for temperature,
\* higher for the other measures.  A reading inside the band deviates by 0.
DeviatesFurther(f, a, b) ==
    IF f = "temperature" THEN
        /\ preferences.preferred_temp_range_f # None
        /\ LET lower == preferences.preferred_temp_range_f[1][1]
               upper == preferences.preferred_temp_range_f[1][2]
           IN \/ b < a /\ b < lower /\ a <= upper
              \/ b > a /\ b > upper /\ a >= lower
    ELSE b > a

\* C11: with the preferences fixed, for temperature (below or above the
\* band), wind speed, gusts, AQI and precipitation probability, a reading
\* that deviates further than another in the same direction has a status at
\* least as bad, in the order ideal < acceptable < caution < avoid.
C11_StatusMonotoneInDeviation ==
    PairAssessed =>
        \A f \in NumericFields :
            LET a == conditions.current[1][f]
                b == conditions.forecast[1][1][f]
                sa == current_assessment[1].judgments[KeyOfField(f)].status
                sb == hourly_assessments[1].judgments[KeyOfField(f)].status
            IN (a # None /\ b # None /\ DeviatesFurther(f, a[1], b[1]))
               => Badness(sb) >= Badness(sa)

\* A precipitation probability of 50 judged caution and one of 70 judged
\* avoid by a rider who avoids precipitation.
C11_Witness ==
    /\ PairAssessed
    /\ conditions.current[1].precipitation_prob = Some(50)
    /\ conditions.forecast[1][1].precipitation_prob = Some(70)
    /\ current_assessment[1].judgments["precipitation_prob_percent"].status = "caution"
    /\ hourly_assessments[1].judgments["precipitation_prob_percent"].status = "avoid"

----------------------------------------------------------------------------
(* Properties of the judges on one hour (SpecHour) *)

\* The snapshot field each judgment key is computed from.
FieldOfKey(k) ==
    IF k = "temperature_f" THEN "temperature"
    ELSE IF k = "wind_speed_mph" THEN "wind_speed"
    ELSE IF k = "wind_gusts_mph" THEN "wind_gusts"
    ELSE IF k = "us_aqi" THEN "us_aqi"
    ELSE IF k = "precipitation_prob_percent" THEN "precipitation_prob"
    ELSE "is_day"

\* The risk codes the judge of a key can add.
CodesOfKey(k) ==
    IF k = "temperature_f" THEN {"extreme_cold", "extreme_heat"}
    ELSE IF k = "wind_speed_mph" THEN {"high_wind"}
    ELSE IF k = "wind_gusts_mph" THEN {"gusty_wind"}
    ELSE IF k = "us_aqi" THEN {"poor_air_quality"}
    ELSE IF k = "precipitation_prob_percent" THEN {"precipitation"}
    ELSE {"darkness"}

AllKeys == {JudgmentKeys[i] : i \in 1..Len(JudgmentKeys)}

\* The hour carries a risk flag of the judge of key k.
HasRiskOf(k) ==
    \E i \in 1..Len(assessment[1].risks) : assessment[1].risks[i].code \in CodesOfKey(k)

\* The reading of key k is null, and its judgment has the given status, a
\* null distance and no risk flag.
NullJudgedAs(k, status) ==
    LET j == assessment[1].judgments[k] IN
    /\ j.status = status
    /\ j.distance_from_preference = None
    /\ ~HasRiskOf(k)

\* C12 as stated: for each of the six judges and any preferences, a null
\* reading yields status unknown, a null distance and no risk flag.
C12_NullReadingIsUnknown ==
    HourAssessed =>
        \A k \in AllKeys :
            hour_snapshot[1][FieldOfKey(k)] = None => NullJudgedAs(k, "unknown")

\* C12 amended: a null reading yields status unknown, a null distance and no
\* risk flag for the five numeric judges, and for the daylight judge when
\* the rider prefers daylight; when the rider does not prefer daylight a
\* null is_day is judged ideal, again with a null distance and no risk flag.
C12_NullReadingUnknownUnlessDaylightOff ==
    HourAssessed =>
        \A k \in AllKeys :
            hour_snapshot[1][FieldOfKey(k)] = None =>
                IF k = "daylight" /\ preferences.prefer_daylight # Some(TRUE)
                THEN NullJudgedAs(k, "ideal")
                ELSE NullJudgedAs(k, "unknown")

\* Every reading null for a rider who does not prefer daylight: five unknown
\* judgments and an ideal daylight judgment.
C12_Witness ==
    /\ HourAssessed
    /\ \A k \in AllKeys : hour_snapshot[1][FieldOfKey(k)] = None
    /\ preferences.prefer_daylight = Some(FALSE)
    /\ assessment[1].judgments["daylight"].status = "ideal"
    /\ assessment[1].judgments["us_aqi"].status = "unknown"
    /\ assessment[1].risks = <<>>

----------------------------------------------------------------------------
(* Properties of single judges at their thresholds (SpecPair) *)

\* The two assessed hours of a pair, each with the snapshot it came from.
PairHours ==
    {[snap |-> conditions.current[1], hour |-> current_assessment[1]],
     [snap |-> conditions.forecast[1][1], hour |-> hourly_assessments[1]]}

\* The risk flags of an hour that carry one of the given codes, in order.
RisksWithCode(hour, codes) ==
    SelectSeq(hour.risks, LAMBDA r : r.code \in codes)

\* The hour's judgment under key k has this status and severity, and the
\* hour carries exactly one flag of the code, with that severity.
JudgedRisky(hour, k, status, code, severity) ==
    /\ hour.judgments[k].status = status
    /\ hour.judgments[k].severity = Some(severity)
    /\ Len(RisksWithCode(hour, CodesOfKey(k))) = 1
    /\ RisksWithCode(hour, CodesOfKey(k))[1].code = code
    /\ RisksWithCode(hour, CodesOfKey(k))[1].severity = severity

\* The hour's judgment under key k has this status and no flag of its judge.
JudgedPlain(hour, k, status) ==
    /\ hour.judgments[k].status = status
    /\ hour.judgments[k].severity = None
    /\ RisksWithCode(hour, CodesOfKey(k)) = <<>>

\* C13: for a temperature below the band's lower bound: below 32 the
\* judgment is avoid with an extreme_cold risk, major when the reading is
\* <= 25 and moderate otherwise, and the hour decision is avoid; at 32 or
\* more and more than 10 below the bound it is caution with a moderate
\* extreme_cold risk; otherwise it is acceptable with no risk.
C13_ColdSideOfTemperatureJudge ==
    PairAssessed =>
        \A p \in PairHours :
            (/\ p.snap.temperature # None
             /\ preferences.preferred_temp_range_f # None
             /\ p.snap.temperature[1] < preferences.preferred_temp_range_f[1][1])
            =>
            LET t == p.snap.temperature[1]
                lower == preferences.preferred_temp_range_f[1][1]
            IN
            IF t < 32 THEN
                /\ JudgedRisky(p.hour, "temperature_f", "avoid", "extreme_cold",
                               IF t <= 25 THEN "major" ELSE "moderate")
                /\ p.hour.decision = "avoid"
            ELSE IF lower - t > 10 THEN
                JudgedRisky(p.hour, "temperature_f", "caution", "extreme_cold", "moderate")
            ELSE JudgedPlain(p.hour, "temperature_f", "acceptable")

\* Band 65-93: 25 degrees is avoid with a major extreme_cold risk and the
\* hour is avoid; 55 degrees, exactly 10 below the bound, is acceptable.
C13_Witness ==
    /\ PairAssessed
    /\ preferences.preferred_temp_range_f = Some(<<65, 93>>)
    /\ conditions.current[1].temperature = Some(25)
    /\ conditions.forecast[1][1].temperature = Some(55)
    /\ current_assessment[1].decision = "avoid"
    /\ current_assessment[1].risks # <<>>
    /\ current_assessment[1].risks[1].severity = "major"
    /\ hourly_assessments[1].judgments["temperature_f"].status = "acceptable"
    /\ hourly_assessments[1].risks = <<>>

\* The rider's AQI limit, 80 when none is set.
AqiLimit ==
    IF preferences.max_aqi = None \/ preferences.max_aqi = Some(0)
    THEN 80 ELSE preferences.max_aqi[1]

\* C14: an AQI of 151 or more is avoid with a major poor_air_quality risk
\* whatever the avoid-poor-AQI flag and the limit; below 151 the judgment is
\* caution with a moderate poor_air_quality risk exactly when the flag is
\* not false and the reading is strictly greater than the limit; otherwise
\* there is no poor_air_quality risk and the judgment is ideal for a reading
\* <= 50 and acceptable above (so 80 with limit 80 is acceptable).
C14_AqiJudgeThresholds ==
    PairAssessed =>
        \A p \in PairHours :
            p.snap.us_aqi # None =>
                LET a == p.snap.us_aqi[1] IN
                IF a >= 151 THEN
                    JudgedRisky(p.hour, "us_aqi", "avoid", "poor_air_quality", "major")
                ELSE IF preferences.avoid_poor_aqi # Some(FALSE) /\ a > AqiLimit THEN
                    JudgedRisky(p.hour, "us_aqi", "caution", "poor_air_quality", "moderate")
                ELSE
                    JudgedPlain(p.hour, "us_aqi", IF a <= 50 THEN "ideal" ELSE "acceptable")

\* Limit 80 with the flag set: 80 is acceptable without a risk, 81 is
\* caution with a poor_air_quality risk.
C14_Witness ==
    /\ PairAssessed
    /\ preferences.max_aqi = Some(80) /\ preferences.avoid_poor_aqi = Some(TRUE)
    /\ conditions.current[1].us_aqi = Some(80)
    /\ conditions.forecast[1][1].us_aqi = Some(81)
    /\ current_assessment[1].judgments["us_aqi"].status = "acceptable"
    /\ current_assessment[1].risks = <<>>
    /\ hourly_assessments[1].judgments["us_aqi"].status = "caution"
    /\ Len(hourly_assessments[1].risks) = 1

\* The rider's wind limit, 25 mph when none is set.
WindLimit ==
    IF preferences.max_wind_mph = None \/ preferences.max_wind_mph = Some(0)
    THEN 25 ELSE preferences.max_wind_mph[1]

\* C15 as stated: for every non-null wind speed, in every status branch, the
\* wind-speed judgment's distance_from_preference is limit - value.
C15_WindDistanceIsLimitMinusValue ==
    PairAssessed =>
        \A p \in PairHours :
            p.snap.wind_speed # None =>
                p.hour.judgments["wind_speed_mph"].distance_from_preference
                    = Some(WindLimit - p.snap.wind_speed[1])

\* C15 amended: the distance is limit - value in the ideal and acceptable
\* branches (value <= limit) and value - limit in the caution and avoid
\* branches (value > limit): the absolute difference, never negative.
C15_WindDistanceIsAbsoluteDifference ==
    PairAssessed =>
        \A p \in PairHours :
            p.snap.wind_speed # None =>
                LET w == p.snap.wind_speed[1]
                    j == p.hour.judgments["wind_speed_mph"]
                IN
                /\ j.status \in {"ideal", "acceptable"} <=> w <= WindLimit
                /\ j.status \in {"caution", "avoid"} <=> w > WindLimit
                /\ j.distance_from_preference
                      = Some(IF w <= WindLimit THEN WindLimit - w ELSE w - WindLimit)

\* Limit 25: a wind of 10 is ideal at distance 15, a wind of 31 is avoid at
\* distance 6.
C15_Witness ==
    /\ PairAssessed
    /\ preferences.max_wind_mph = Some(25)
    /\ conditions.current[1].wind_speed = Some(10)
    /\ conditions.forecast[1][1].wind_speed = Some(31)
    /\ current_assessment[1].judgments["wind_speed_mph"].status = "ideal"
    /\ current_assessment[1].judgments["wind_speed_mph"].distance_from_preference = Some(15)
    /\ hourly_assessments[1].judgments["wind_speed_mph"].status = "avoid"
    /\ hourly_assessments[1].judgments["wind_speed_mph"].distance_from_preference = Some(6)

----------------------------------------------------------------------------
(* The wind trend between two hours under the default policies (SpecPair) *)

\* C16: under the default measure policies, when the wind speed is non-null
\* in two consecutive hours and the trend is not stable, a wind speed lower
\* than in the previous hour is labelled improving and a higher one
\* worsening, below the rider's limit as well as above it.
C16_LowerWindIsImproving ==
    (PairAssessed /\ policies = None) =>
        LET a == conditions.current[1].wind_speed
            b == conditions.forecast[1][1].wind_speed
            trend == hourly_assessments[1].judgments["wind_speed_mph"].trend
        IN (a # None /\ b # None /\ trend \in {Some("improving"), Some("worsening")}) =>
              /\ b[1] < a[1] => trend = Some("improving")
              /\ b[1] > a[1] => trend = Some("worsening")

----------------------------------------------------------------------------
(* Properties of the order of the timeline (SpecOrder) *)

\* The positions of the forecast that hold an entry.
NonNullPositions == {i \in 1..Len(conditions.forecast) : conditions.forecast[i] # None}

\* (time, hour_index or 0) of an assessed hour.
OrderKey(h) == <<h.time, IF h.hour_index = None THEN 0 ELSE h.hour_index[1]>>

KeyAtMost(k1, k2) == k1[1] < k2[1] \/ (k1[1] = k2[1] /\ k1[2] <= k2[2])

\* C17: assess_timeline returns one forecast assessment for each non-null
\* forecast entry, no more and no fewer, in ascending order of
\* (time, hour_index or 0), for every order of the input entries and every
\* placement of the null entries.
C17_OneAssessmentPerEntryInKeyOrder ==
    TimelineAssessed =>
        /\ Len(hourly_assessments) = Cardinality(NonNullPositions)
        /\ \A tm \in {3600, 7200}, idx \in Optional({0, 1}) :
              Cardinality({i \in 1..Len(hourly_assessments) :
                              /\ hourly_assessments[i].time = tm
                              /\ hourly_assessments[i].hour_index = idx})
              = Cardinality({i \in NonNullPositions :
                                /\ conditions.forecast[i][1].time = Some(tm)
                                /\ conditions.forecast[i][1].hour_index = idx})
        /\ \A i, j \in 1..Len(hourly_assessments) :
              i < j => KeyAtMost(OrderKey(hourly_assessments[i]),
                                 OrderKey(hourly_assessments[j]))

\* A null entry between two entries of the same time, the first with
\* hour_index 1 and the last without one: two assessments, exchanged.
C17_Witness ==
    /\ TimelineAssessed
    /\ Len(conditions.forecast) = 3
    /\ conditions.forecast[2] = None
    /\ conditions.forecast[1] # None /\ conditions.forecast[3] # None
    /\ conditions.forecast[1][1].time = conditions.forecast[3][1].time
    /\ conditions.forecast[1][1].hour_index = Some(1)
    /\ conditions.forecast[3][1].hour_index = None
    /\ Len(hourly_assessments) = 2
    /\ hourly_assessments[1].hour_index = None
    /\ hourly_assessments[2].hour_index = Some(1)

----------------------------------------------------------------------------
(* The judgment keys of a timeline (SpecTimeline) *)

\* The keys of the canonical assessment: the current one if there is one,
\* otherwise the first forecast hour.
CanonicalKeys ==
    IF current_assessment # None THEN DOMAIN current_assessment[1].judgments
    ELSE DOMAIN hourly_assessments[1].judgments

\* C18: after assess_timeline every forecast HourAssessment has exactly the
\* judgment keys of the canonical assessment (the current assessment if
\* present, otherwise the first forecast hour), whichever readings are null
\* in whichever hours.
C18_ForecastKeysAreCanonical ==
    TimelineAssessed =>
        \A i \in 1..Len(hourly_assessments) :
            DOMAIN hourly_assessments[i].judgments = CanonicalKeys

\* A current snapshot without a temperature and two forecast hours, the
\* first with a temperature and the second without: the same six keys.
C18_Witness ==
    /\ TimelineAssessed
    /\ current_assessment # None
    /\ conditions.current[1].temperature = None
    /\ Len(hourly_assessments) = 2
    /\ hourly_assessments[1].judgments["temperature_f"].status = "ideal"
    /\ hourly_assessments[2].judgments["temperature_f"].status = "unknown"
    /\ DOMAIN hourly_assessments[1].judgments = CanonicalKeys
    /\ CanonicalKeys = AllKeys

----------------------------------------------------------------------------
(* The input-contract error (SpecOrder) *)

\* A snapshot handed to assess_timeline has no valid time.
SomeTimeInvalid ==
    \/ conditions.current # None /\ conditions.current[1].time = None
    \/ \E i \in NonNullPositions : conditions.forecast[i][1].time = None

\* C19: assess_hour, and assess_timeline for the current snapshot or a
\* forecast entry at any position, fail with the ValueError
\* 'hour_snapshot.time must be a datetime' whenever a snapshot's time is
\* absent or not a datetime, and return no assessment.
C19_InvalidTimeRaisesValueError ==
    /\ (pc = "assess_hour" /\ hour_snapshot[1].time = None)
          => (error = "ValueError" /\ assessment = None)
    /\ (pc = "assess_timeline" /\ SomeTimeInvalid)
          => (/\ error = "ValueError"
              /\ current_assessment = None
              /\ hourly_assessments = <<>>)

----------------------------------------------------------------------------
(* Completion of the window search (SpecWindows) *)

\* C20: compute_window_recommendations and build_summary return a complete
\* result without raising for every list of well-formed HourAssessments and
\* every sequence of integer candidate durations, 0 and negative minutes
\* included.
C20_WindowsAndSummaryNeverRaise ==
    /\ pc = "windows" => error = "none"
    /\ pc = "summary" => (error = "none" /\ summary # None)

----------------------------------------------------------------------------
(* The suitability score (SpecScore) *)

\* The positions of the hours that have a score.
ScoredPositions == {i \in 1..Len(hourly) : hourly[i].hour_score # None}

\* The sum of the scores at a set of positions.
RECURSIVE ScoreSumAt(_)
ScoreSumAt(ps) ==
    IF ps = {} THEN 0
    ELSE LET i == CHOOSE x \in ps : TRUE IN hourly[i].hour_score[1] + ScoreSumAt(ps \ {i})

\* C21: build_summary's suitability_score is the arithmetic mean of the
\* hour_score values of exactly the hours whose hour_score is not null, and
\* is null when no hour has a score (an empty hour list included).
C21_SuitabilityIsMeanOfScoredHours ==
    summary # None =>
        IF ScoredPositions = {} THEN summary[1].suitability_score = None
        ELSE /\ summary[1].suitability_score # None
             /\ summary[1].suitability_score[1].den > 0
             /\ summary[1].suitability_score[1].num * Cardinality(ScoredPositions)
                   = ScoreSumAt(ScoredPositions) * summary[1].suitability_score[1].den

\* Scores 9.0, none, 2.0: the suitability score is 11.0 / 2.
C21_Witness ==
    /\ summary # None
    /\ Len(hourly) = 3
    /\ hourly[1].hour_score = Some(9000)
    /\ hourly[2].hour_score = None
    /\ hourly[3].hour_score = Some(2000)
    /\ summary[1].suitability_score # None
    /\ summary[1].suitability_score[1].num * 2 = 11000 * summary[1].suitability_score[1].den

----------------------------------------------------------------------------
(* The pairs (start index, duration) of the window search (SpecWindows) *)

\* The least number of whole hours that holds d minutes.
CeilHours(d) == CHOOSE n \in -3..3 : 60 * (n - 1) < d /\ d <= 60 * n

\* The start positions from which a window of n hours is recommended.
EligibleStarts(n) == {st \in 1..Len(hourly) : <<st, n>> \in EligibleWindows}

\* The n hours from position st of the time-ordered input.
RunAt(st, n) == SubSeq(HourlySorted(hourly), st, st + n - 1)

\* C25: for each start index i and candidate duration d the search looks at
\* exactly the ceil(d/60) hours from i, emits at most one recommendation for
\* (i, d) and none when fewer than ceil(d/60) hours remain; so durations
\* with the same ceil(d/60) give recommendations over the same hours with
\* the same start, end and window_score.
C25_OneWindowPerStartAndDuration ==
    WindowsReturned =>
        /\ \A r \in 1..Len(recs) :
              /\ \E k \in DOMAIN durations_minutes : recs[r].duration = durations_minutes[k]
              /\ Len(recs[r].hours) = CeilHours(recs[r].duration)
        /\ \A k \in DOMAIN durations_minutes :
              LET d == durations_minutes[k]
                  n == CeilHours(d)
              IN
              /\ Cardinality({r \in 1..Len(recs) : recs[r].duration = d})
                    = Cardinality(EligibleStarts(n))
              /\ \A st \in EligibleStarts(n) :
                    Cardinality({r \in 1..Len(recs) :
                                    recs[r].duration = d /\ recs[r].hours = RunAt(st, n)})
                    = Cardinality({t \in EligibleStarts(n) : RunAt(t, n) = RunAt(st, n)})
        /\ \A r \in 1..Len(recs) : \A k \in DOMAIN durations_minutes :
              CeilHours(durations_minutes[k]) = CeilHours(recs[r].duration) =>
                  \E q \in 1..Len(recs) :
                      /\ recs[q].duration = durations_minutes[k]
                      /\ recs[q].hours = recs[r].hours
                      /\ recs[q].start = recs[r].start
                      /\ recs[q].end = recs[r].end
                      /\ recs[q].window_score = recs[r].window_score

\* Three consecutive hours and the default durations: three windows each for
\* 45 and 60 minutes and two each for 90 and 120, the 45- and 60-minute ones
\* over the same hours, and no window from the last hour for 90 or 120.
C25_Witness ==
    /\ WindowsReturned
    /\ durations_minutes = <<45, 60, 90, 120>>
    /\ Len(hourly) = 3
    /\ Len(recs) = 10
    /\ \E r, q \in 1..Len(recs) :
          /\ recs[r].duration = 45 /\ recs[q].duration = 60
          /\ recs[r].hours = recs[q].hours
    /\ \E r, q \in 1..Len(recs) :
          /\ recs[r].duration = 90 /\ recs[q].duration = 120
          /\ recs[r].hours = recs[q].hours /\ Len(recs[r].hours) = 2

----------------------------------------------------------------------------
(* What the trend pass leaves alone (SpecTimeline) *)

\* An hour with the three trend fields of every judgment reset to None.
WithoutTrends(h) ==
    [h EXCEPT !.judgments =
        [k \in DOMAIN h.judgments |->
            [h.judgments[k] EXCEPT !.trend = None, !.trend_delta = None,
                                   !.trend_confidence = None]]]

\* The forecast entries in the order assess_timeline assesses them.
AssessedEntries ==
    SortTimeline(NonNullEntries(conditions.forecast),
                 Len(NonNullEntries(conditions.forecast)))

\* C26: the trend pass changes only the trend, trend_delta and
\* trend_confidence of an hour's judgments: apart from these every forecast
\* hour is the assessment assess_hour gave (status, distance, severity and
\* reasons of every judgment, risks, decision, hour_score), and the
\* predecessor is unchanged (the current assessment is still exactly what
\* assess_hour gave).
C26_TrendPassTouchesOnlyTrendFields ==
    TimelineAssessed =>
        /\ current_assessment =
              (IF conditions.current = None THEN None
               ELSE Some(assess_hour(preferences, conditions.current[1])))
        /\ Len(hourly_assessments) = Len(AssessedEntries)
        /\ \A i \in 1..Len(hourly_assessments) :
              WithoutTrends(hourly_assessments[i])
                  = assess_hour(preferences, AssessedEntries[i])

\* A current snapshot and two forecast hours, each forecast hour with a
\* temperature trend set.
C26_Witness ==
    /\ TimelineAssessed
    /\ current_assessment # None
    /\ Len(hourly_assessments) = 2
    /\ hourly_assessments[1].judgments["temperature_f"].trend = Some("worsening")
    /\ hourly_assessments[2].judgments["temperature_f"].trend = Some("improving")
    /\ WithoutTrends(hourly_assessments[2]) # hourly_assessments[2]

----------------------------------------------------------------------------
(* The risks of an hour (SpecHour) *)

\* The positions, in judge order, of the judgments that are caution or avoid.
RiskyPositions ==
    {n \in 1..Len(JudgmentKeys) :
        assessment[1].judgments[JudgmentKeys[n]].status \in {"caution", "avoid"}}

\* C27: the risks of an hour assessed by assess_hour hold exactly one flag
\* for each judgment whose status is caution or avoid and none for any
\* other, in the judge order temperature, wind speed, wind gusts, AQI,
\* precipitation, daylight; so risks is empty iff the decision is go or
\* unknown.
C27_OneRiskPerCautionOrAvoidJudgment ==
    HourAssessed =>
        /\ Len(assessment[1].risks) = Cardinality(RiskyPositions)
        /\ \A m \in 1..Len(assessment[1].risks) :
              assessment[1].risks[m].code
                  \in CodesOfKey(JudgmentKeys[KthOf(RiskyPositions, m)])
        /\ assessment[1].risks = <<>> <=> assessment[1].decision \in {"go", "unknown"}

\* Temperature avoid, wind speed caution and darkness, the other three
\* judgments neither: three flags, in that order.
C27_Witness ==
    /\ HourAssessed
    /\ assessment[1].judgments["temperature_f"].status = "avoid"
    /\ assessment[1].judgments["wind_speed_mph"].status = "caution"
    /\ assessment[1].judgments["daylight"].status = "caution"
    /\ RiskyPositions = {1, 2, 6}
    /\ Len(assessment[1].risks) = 3
    /\ assessment[1].risks[2].code = "high_wind"
    /\ assessment[1].risks[3].code = "darkness"

----------------------------------------------------------------------------
(* The limiters of a payload (SpecPayload) *)

PayloadBuilt == pc = "payload" /\ error = "none" /\ summary # None

\* C28 as stated: in the summary built from the hours of assess_timeline and
\* the windows over those hours, an overall_decision of avoid or
\* go_with_caution always comes with at least one primary limiter.
C28_CautionOrAvoidHasLimiter ==
    PayloadBuilt =>
        (summary[1].overall_decision \in {"avoid", "go_with_caution"}
            => summary[1].primary_limiters # <<>>)

\* C28 amended: an overall_decision of avoid or go_with_caution comes with
\* at least one primary limiter when no window is recommended; when windows
\* are recommended there is a limiter exactly when one of the best three
\* windows has the decision go_with_caution, whatever the overall decision.
C28_LimiterIffNoWindowOrCautionWindow ==
    PayloadBuilt =>
        LET best == summary[1].best_windows IN
        IF best = <<>>
        THEN summary[1].overall_decision \in {"avoid", "go_with_caution"}
                => summary[1].primary_limiters # <<>>
        ELSE summary[1].primary_limiters # <<>>
                <=> \E w \in 1..Len(best) : best[w].decision = "go_with_caution"

\* A calm hour and an hour to avoid: the overall decision is avoid, the
\* calm hour's windows are recommended, and there is no limiter.
C28_Witness ==
    /\ PayloadBuilt
    /\ Len(hourly_assessments) = 2
    /\ hourly_assessments[1].decision = "go"
    /\ hourly_assessments[2].decision = "avoid"
    /\ summary[1].overall_decision = "avoid"
    /\ summary[1].best_windows # <<>>
    /\ summary[1].primary_limiters = <<>>

----------------------------------------------------------------------------
(* The sliding expiry of InMemorySessionStore (SpecStore) *)

MemoryWithoutMaxAge == store.kind = "memory" /\ IsNone(store.max_age)

\* The last call was a get_session or update_session that succeeded.
LastCallSucceeded ==
    /\ ~IsNone(returned)
    /\ returned[1].op \in {"get_session", "update_session"}
    /\ returned[1].stored

\* C22: in InMemorySessionStore without a max age, a successful get_session
\* or update_session leaves the session's expiry at now + ttl; get_session
\* returns the session exactly when at most ttl seconds have passed since
\* its creation or last successful access; a session found expired is
\* removed and no later call returns it.
C22_SlidingExpiry ==
    /\ [](MemoryWithoutMaxAge =>
            /\ LastCallSucceeded =>
                  store.sessions[returned[1].session_id].exp = returned[1].now + store.ttl
            /\ \A sid \in history.expired : sid \notin DOMAIN store.sessions
            /\ (~IsNone(returned) /\ ~IsNone(returned[1].value))
                  => returned[1].session_id \notin history.expired)
    /\ [][(MemoryWithoutMaxAge /\ GetSession) =>
            LET sid == returned'[1].session_id IN
            ~IsNone(returned'[1].value)
               <=> /\ sid \in DOMAIN history.touched
                   /\ clock - history.touched[sid] <= store.ttl]_vars

\* A session read later than ttl seconds after its creation, kept alive by
\* an earlier access.
C22_Witness ==
    /\ MemoryWithoutMaxAge
    /\ LastCallSucceeded
    /\ returned[1].op = "get_session"
    /\ returned[1].now - store.sessions[returned[1].session_id].created_at > store.ttl

\* A session that a call found expired and removed.
C22_WitnessExpired ==
    /\ MemoryWithoutMaxAge
    /\ history.expired # {}
    /\ ~IsNone(returned) /\ returned[1].op = "get_session" /\ IsNone(returned[1].value)
    /\ returned[1].session_id \in history.expired

----------------------------------------------------------------------------
(* The absolute max age of both stores (SpecStore) *)

\* The time a stored session expires at: exp in the dictionary of
\* InMemorySessionStore, the expiry of the key in Redis.
ExpiryOf(sid) ==
    IF store.kind = "memory" THEN store.sessions[sid].exp
    ELSE store.sessions[sid].expire_at

\* C23: with max_age_seconds set, in InMemorySessionStore and in
\* RedisSessionStore get_session returns no session more than max_age
\* seconds after its creation, whatever was read or updated in between,
\* and no stored session has an expiry later than its creation plus max_age.
C23_MaxAgeCapsLifetime ==
    ~IsNone(store.max_age) =>
        /\ (/\ ~IsNone(returned)
            /\ returned[1].op = "get_session"
            /\ ~IsNone(returned[1].value))
              => returned[1].now - history.created[returned[1].session_id]
                    <= Val(store.max_age)
        /\ \A sid \in DOMAIN store.sessions :
              ExpiryOf(sid) <= history.created[sid] + Val(store.max_age)

\* A session read within ttl seconds of its last successful access and not
\* returned, because it is older than max_age.
C23_Witness ==
    /\ ~IsNone(store.max_age)
    /\ ~IsNone(returned)
    /\ returned[1].op = "get_session"
    /\ IsNone(returned[1].value)
    /\ returned[1].session_id \in DOMAIN history.touched
    /\ returned[1].now - history.touched[returned[1].session_id] <= store.ttl
    /\ history.touched[returned[1].session_id] > history.created[returned[1].session_id]
    /\ returned[1].now - history.created[returned[1].session_id] > Val(store.max_age)

----------------------------------------------------------------------------
(* What update_session of InMemorySessionStore changes (SpecStore) *)

\* The session is stored and neither its ttl since the last successful
\* access nor its max age has run out.
LiveSession(sid) ==
    /\ sid \in DOMAIN history.touched
    /\ clock - history.touched[sid] <= store.ttl
    /\ IsNone(store.max_age) \/ clock - history.created[sid] <= Val(store.max_age)

\* A step of update_session: on a live session the fields passed are
\* replaced and the others and created_at are kept; otherwise the session
\* is not stored afterwards.  No other session changes.
UpdateFrame(sid, messages, prefs, conds, assess) ==
    LET before == store.sessions
        after == store'.sessions
    IN /\ \A other \in (DOMAIN before \cup DOMAIN after) \ {sid} :
             other \in DOMAIN before /\ other \in DOMAIN after
                /\ after[other] = before[other]
       /\ IF LiveSession(sid)
          THEN /\ sid \in DOMAIN before /\ sid \in DOMAIN after
               /\ after[sid].messages =
                     (IF IsNone(messages) THEN before[sid].messages ELSE Val(messages))
               /\ after[sid].preferences =
                     (IF IsNone(prefs) THEN before[sid].preferences ELSE Val(prefs))
               /\ after[sid].conditions =
                     (IF IsNone(conds) THEN before[sid].conditions ELSE conds)
               /\ after[sid].assessment =
                     (IF IsNone(assess) THEN before[sid].assessment ELSE assess)
               /\ after[sid].created_at = before[sid].created_at
          ELSE sid \notin DOMAIN after

\* C24: update_session replaces those of messages, preferences, conditions
\* and assessment that are passed as non-None and leaves the other fields
\* and the creation time as they were; with the id of a session that is
\* missing or expired it stores nothing and creates no session.
C24_UpdateReplacesOnlyPassedFields ==
    [][\A sid \in SessionIds, messages \in Optional({UpdatedMessages}),
          prefs \in Optional({UpdatedPreferences}), conds \in Optional(StoreConditions),
          assess \in Optional(StoreAssessments) :
          (store.kind = "memory" /\ UpdateSessionWith(sid, messages, prefs, conds, assess))
             => UpdateFrame(sid, messages, prefs, conds, assess)]_vars

\* An update of the messages alone: the messages are the new ones, the
\* preferences and the conditions those of the creation.
C24_Witness ==
    /\ store.kind = "memory"
    /\ ~IsNone(returned)
    /\ returned[1].op = "update_session"
    /\ returned[1].stored
    /\ store.sessions[returned[1].session_id].messages = UpdatedMessages
    /\ store.sessions[returned[1].session_id].preferences = DefaultUserPreferences
    /\ ~IsNone(store.sessions[returned[1].session_id].conditions)
    /\ IsNone(store.sessions[returned[1].session_id].assessment)

----------------------------------------------------------------------------
(* Concurrent updates of one session in Redis (SpecConcurrent) *)

\* Both update_session calls have returned, each having written the session.
BothUpdatesWritten ==
    /\ DOMAIN updaters = Callers
    /\ \A caller \in Callers : updaters[caller].pc = "done" /\ updaters[caller].wrote
    /\ 1 \in DOMAIN store.sessions

\* C30: after two concurrent update_session calls of RedisSessionStore on
\* one live session that pass different fields have both returned, the
\* stored payload holds the fields of both.
C30_BothConcurrentUpdatesStored ==
    BothUpdatesWritten =>
        LET stored == _safe_load(store.sessions[1].value, clock).payload IN
        \A caller \in Callers :
            LET a == updaters[caller].args IN
            /\ ~IsNone(a.messages) => stored.messages = Val(a.messages)
            /\ ~IsNone(a.preferences) => stored.preferences = Val(a.preferences)
            /\ ~IsNone(a.conditions) => stored.conditions = a.conditions
            /\ ~IsNone(a.assessment) => stored.assessment = a.assessment

----------------------------------------------------------------------------
(* The assessment of a chat after a change of preferences (SpecApi) *)

\* The last request was a continue_chat that answered with an assessment.
ChatAnswered ==
    /\ ~IsNone(request)
    /\ request[1].op = "continue_chat"
    /\ request[1].status = 200
    /\ request[1].session_id \in DOMAIN store.sessions

\* C29: the assessment continue_chat returns and persists is computed from
\* the preferences stored for the session, so after set_preferences has
\* stored preferences other than the defaults the next continue_chat
\* answers with an assessment of those preferences, whether the cached
\* conditions are fresh or not and an assessment is cached or not.
C29_ChatAssessesStoredPreferences ==
    ChatAnswered =>
        LET sid == request[1].session_id
            stored == IF store.kind = "memory" THEN store.sessions[sid]
                      ELSE _safe_load(store.sessions[sid].value, clock).payload
        IN stored.preferences # DefaultUserPreferences =>
              /\ Val(request[1].assessment).preferences = stored.preferences
              /\ Val(stored.assessment).data = Val(request[1].assessment)

====
